---- MODULE Spec2Model ----
(***************************************************************************)
(* A model of the launchpad state engine: src/lib/utils.ts (validators,    *)
(* identity resolver, settings reconciler) and src/hooks/useLaunchpadState *)
(* (the state container, its handlers and its effects).                    *)
(*                                                                         *)
(* Representation.                                                         *)
(*  - A JavaScript string is a sequence of one-character strings.          *)
(*  - A JavaScript number x is the integer 100 * x (two decimals), so that *)
(*    0.6 is 60 and a page size of 14 is 1400.  Indices and counts (page,  *)
(*    active index, lengths) are plain integers.                           *)
(*  - An untyped value (a parsed backup file, a form field) is a tagged    *)
(*    record [k |-> kind, ...]; see the Js* constructors.                  *)
(***************************************************************************)
EXTENDS Integers, Sequences, FiniteSets, TLC

\* ------------------------------------------------------------------ bounds

\* Largest value of the clock read by Date.now() (createSlugId).
MaxClock == 1
\* Most custom apps submitCustomApp lets userData.customApps grow to.
MaxCustom == 1
\* Most catalog loads in flight at once.
MaxLoads == 3
\* Most custom apps an import brings in.
MaxImported == 2

\* ------------------------------------------------------------- characters

\* One unit of a JavaScript number: numbers are kept in hundredths.
Scale == 10 * 10

LowerAlpha ==
  <<"a","b","c","d","e","f","g","h","i","j","k","l","m",
    "n","o","p","q","r","s","t","u","v","w","x","y","z">>

UpperAlpha ==
  <<"A","B","C","D","E","F","G","H","I","J","K","L","M",
    "N","O","P","Q","R","S","T","U","V","W","X","Y","Z">>

DigitChars == <<"0","1","2","3","4","5","6","7","8","9">>

\* The digits of Number.prototype.toString(36) and toString(16).
Base36Chars == DigitChars \o LowerAlpha

Range(f) == { f[i] : i \in DOMAIN f }

IndexOf(seq, c) == CHOOSE i \in DOMAIN seq : seq[i] = c

\* String.prototype.toLowerCase, one character.
ToLowerChar(c) ==
  IF c \in Range(UpperAlpha) THEN LowerAlpha[IndexOf(UpperAlpha, c)] ELSE c

ToLowerCase(s) == [i \in 1..Len(s) |-> ToLowerChar(s[i])]

\* The white space String.prototype.trim removes.
IsSpace(c) == c \in {" ", "\t", "\n"}

RECURSIVE TrimStart(_)
TrimStart(s) ==
  IF s # <<>> /\ IsSpace(Head(s)) THEN TrimStart(Tail(s)) ELSE s

RECURSIVE TrimEnd(_)
TrimEnd(s) ==
  IF s # <<>> /\ IsSpace(s[Len(s)]) THEN TrimEnd(SubSeq(s, 1, Len(s) - 1)) ELSE s

Trim(s) == TrimEnd(TrimStart(s))

StartsWith(s, p) == Len(s) >= Len(p) /\ SubSeq(s, 1, Len(p)) = p

\* Number.prototype.toString(radix) of an integer n >= 0.
RECURSIVE ToRadix(_, _)
ToRadix(n, radix) ==
  IF n < radix THEN <<Base36Chars[n + 1]>>
  ELSE ToRadix(n \div radix, radix) \o <<Base36Chars[(n % radix) + 1]>>

\* JavaScript's % (the sign of the dividend), b > 0.
JsRem(a, b) == IF a >= 0 THEN a % b ELSE -((-a) % b)

Min(a, b) == IF a <= b THEN a ELSE b
Max(a, b) == IF a >= b THEN a ELSE b

\* Math.round of the number n/100, as a number: the nearest integer, ties up.
MathRound(n) == ((n + (Scale \div 2)) \div Scale) * Scale

\* ---------------------------------------------------------- untyped values

JsUndefined == [k |-> "undefined"]
JsNull == [k |-> "null"]
JsNaN == [k |-> "nan"]
JsInfinity == [k |-> "infinity"]
JsBool(b) == [k |-> "bool", b |-> b]
\* The number n/100.
JsNum(n) == [k |-> "num", n |-> n]
JsStr(s) == [k |-> "str", s |-> s]
JsArr(a) == [k |-> "arr", a |-> a]
\* f is a function from the keys present to their values.
JsObj(f) == [k |-> "obj", f |-> f]

IsString(v) == v.k = "str"
IsArray(v) == v.k = "arr"
IsBoolean(v) == v.k = "bool"
\* typeof v === "object" && v (null is falsy; arrays are objects).
IsTruthyObject(v) == v.k \in {"obj", "arr"}
\* !v
IsFalsy(v) ==
  \/ v.k \in {"undefined", "null", "nan"}
  \/ v.k = "bool" /\ ~v.b
  \/ v.k = "num" /\ v.n = 0
  \/ v.k = "str" /\ v.s = <<>>

\* obj[key]; a key that is absent, and any key of an array here, is undefined.
Get(v, key) ==
  IF v.k = "obj" /\ key \in DOMAIN v.f THEN v.f[key] ELSE JsUndefined

\* a ?? b
Nullish(v) == v.k \in {"undefined", "null"}
Coalesce(a, b) == IF Nullish(a) THEN b ELSE a

\* --------------------------------------------------------------- constants

\* The constants of src/lib/constants.ts.  The page-size range and step are
\* those of the "Desktop page size" slider of SettingsModal.
MIN_PAGE_SIZE == 14
MAX_PAGE_SIZE == 56
PAGE_SIZE_STEP == 7
DEFAULT_PAGE_SIZE == 28

\* DEFAULT_ICON: a root-relative path.
DEFAULT_ICON == <<"/", "d">>

StrImage == <<"i","m","a","g","e">>
StrColor == <<"c","o","l","o","r">>
StrGrid == <<"g","r","i","d">>
StrList == <<"l","i","s","t">>
StrCustom == <<"c","u","s","t","o","m">>
StrApp == <<"a","p","p">>
StrCatalog == <<"c","a","t","a","l","o","g">>
StrJavascript == <<"j","a","v","a","s","c","r","i","p","t",":">>
StrHttp == <<"h","t","t","p">>
StrHttps == <<"h","t","t","p","s">>
StrUntitled == <<"U","n","t","i","t","l","e","d"," ","a","p","p">>

\* ------------------------------------------------------------------ numbers

IsDigit(c) == c \in Range(DigitChars)
DigitValue(c) == IndexOf(DigitChars, c) - 1

\* The longest prefix of s made of characters satisfying the class.
RECURSIVE DigitRun(_)
DigitRun(s) ==
  IF s # <<>> /\ IsDigit(Head(s)) THEN <<Head(s)>> \o DigitRun(Tail(s)) ELSE <<>>

RECURSIVE DecimalValue(_, _)
DecimalValue(digits, acc) ==
  IF digits = <<>> THEN acc
  ELSE DecimalValue(Tail(digits), acc * 10 + DigitValue(Head(digits)))

NotANumber == [finite |-> FALSE, n |-> 0]
Finite(n) == [finite |-> TRUE, n |-> n]

\* Number.parseFloat of a string: leading white space, a sign, digits, a
\* fraction.  The value is kept to two decimals; "Infinity" is not finite.
ParseFloatString(s) ==
  LET t == TrimStart(s)
      neg == t # <<>> /\ Head(t) = "-"
      u == IF t # <<>> /\ Head(t) \in {"-", "+"} THEN Tail(t) ELSE t
      ip == DigitRun(u)
      afterInt == SubSeq(u, Len(ip) + 1, Len(u))
      hasDot == afterInt # <<>> /\ Head(afterInt) = "."
      fp == IF hasDot THEN DigitRun(Tail(afterInt)) ELSE <<>>
      fp2 == SubSeq(fp \o <<"0", "0">>, 1, 2)
      mag == DecimalValue(ip, 0) * Scale + DecimalValue(fp2, 0)
  IN IF ip = <<>> /\ fp = <<>> THEN NotANumber
     ELSE Finite(IF neg THEN -mag ELSE mag)

\* Number.parseFloat(String(value)).  String(number) parses back to the number;
\* String(array) starts with String of its first element; undefined, null,
\* booleans and plain objects print as text that is no number.
RECURSIVE ParseFloatOf(_)
ParseFloatOf(v) ==
  CASE v.k = "num" -> Finite(v.n)
    [] v.k = "str" -> ParseFloatString(v.s)
    [] v.k = "arr" /\ v.a # <<>> /\ Head(v.a).k \in {"num", "str", "arr"} ->
         ParseFloatOf(Head(v.a))
    [] OTHER -> NotANumber

\* clampNumber without Math.min(..., max).
clampNumberWrongUpper(value, min, max, fallback) ==
  LET numeric == ParseFloatOf(value)
  IN IF ~numeric.finite THEN fallback ELSE Max(numeric.n, min)

\* clampNumber without the Number.isFinite check: what does not parse counts
\* as 0.
clampNumberNoFiniteCheck(value, min, max, fallback) ==
  Min(Max(ParseFloatOf(value).n, min), max)

\* clampNumber without Math.max(..., min).
clampNumberNoLower(value, min, max, fallback) ==
  LET numeric == ParseFloatOf(value)
  IN IF ~numeric.finite THEN fallback ELSE Min(numeric.n, max)

clampNumber(value, min, max, fallback) ==
  LET numeric == ParseFloatOf(value)
  IN IF ~numeric.finite THEN fallback ELSE Min(Max(numeric.n, min), max)

\* Math.round(a / b) for integers a and b > 0: the nearest integer, ties up.
RoundDiv(a, b) == (2 * a + b) \div (2 * b)

defaultUserData ==
  [hiddenAppIds |-> <<>>, customApps |-> <<>>, pageSize |-> DEFAULT_PAGE_SIZE * Scale]

\* normalizePageSize without the rounding to a step and the last clamp.
normalizePageSizeNoStep(value) ==
  LET fallback == defaultUserData.pageSize
      clamped == clampNumber(value, MIN_PAGE_SIZE * Scale, MAX_PAGE_SIZE * Scale, fallback)
  IN MathRound(clamped)

normalizePageSize(value) ==
  LET fallback == defaultUserData.pageSize
      clamped == clampNumber(value, MIN_PAGE_SIZE * Scale, MAX_PAGE_SIZE * Scale, fallback)
      rounded == MathRound(clamped)
      stepped == RoundDiv(rounded \div Scale, PAGE_SIZE_STEP) * PAGE_SIZE_STEP * Scale
  IN IF PAGE_SIZE_STEP <= 1
       THEN Min(Max(rounded, MIN_PAGE_SIZE * Scale), MAX_PAGE_SIZE * Scale)
       ELSE Min(Max(stepped, MIN_PAGE_SIZE * Scale), MAX_PAGE_SIZE * Scale)


\* --------------------------------------------------------------- validators

IsLetter(c) == ToLowerChar(c) \in Range(LowerAlpha)

\* /^[a-z][a-z0-9+\-.]*:/i
RECURSIVE SchemeTail(_)
SchemeTail(s) ==
  IF s = <<>> THEN FALSE
  ELSE IF Head(s) = ":" THEN TRUE
  ELSE IF IsLetter(Head(s)) \/ IsDigit(Head(s)) \/ Head(s) \in {"+", "-", "."}
    THEN SchemeTail(Tail(s))
  ELSE FALSE

HasScheme(s) == s # <<>> /\ IsLetter(Head(s)) /\ SchemeTail(Tail(s))

\* The characters of s before the first occurrence of a character of stop.
RECURSIVE Until(_, _)
Until(s, stop) ==
  IF s = <<>> \/ Head(s) \in stop THEN <<>> ELSE <<Head(s)>> \o Until(Tail(s), stop)

RECURSIVE SkipSlashes(_)
SkipSlashes(s) ==
  IF s # <<>> /\ Head(s) \in {"/", "\\"} THEN SkipSlashes(Tail(s)) ELSE s

RECURSIVE EncodeSpaces(_)
EncodeSpaces(s) ==
  IF s = <<>> THEN <<>>
  ELSE (IF Head(s) = " " THEN <<"%", "2", "0">> ELSE <<Head(s)>>) \o EncodeSpaces(Tail(s))

\* new URL(s) for a string with a scheme: the protocol and the serialized URL
\* (url.toString()), or a failure.  For http and https the slashes after the
\* colon are skipped, the host runs to the first "/", "?" or "#", must not be
\* empty and holds no space, is lower-cased, and an empty path becomes "/".
\* Ports, credentials and percent-encoding other than of spaces are left out.
ParseUrl(s) ==
  LET scheme == ToLowerCase(Until(s, {":"}))
      rest == SubSeq(s, Len(scheme) + 2, Len(s))
      afterSlashes == SkipSlashes(rest)
      host == Until(afterSlashes, {"/", "?", "#", "\\"})
      path == SubSeq(afterSlashes, Len(host) + 1, Len(afterSlashes))
      special == scheme \in {StrHttp, StrHttps}
  IN IF special /\ (host = <<>> \/ " " \in Range(host))
       THEN [ok |-> FALSE, protocol |-> <<>>, href |-> <<>>]
     ELSE IF special
       THEN [ok |-> TRUE, protocol |-> scheme \o <<":">>,
             href |-> scheme \o <<":", "/", "/">> \o ToLowerCase(host)
                      \o (IF path = <<>> \/ Head(path) \in {"?", "#"} THEN <<"/">> ELSE <<>>)
                      \o EncodeSpaces(path)]
     ELSE [ok |-> TRUE, protocol |-> scheme \o <<":">>, href |-> s]

\* sanitizeHttpUrl without the check of url.protocol.
sanitizeHttpUrlAnyProtocol(value) ==
  IF value.k # "str" THEN <<>>
  ELSE IF Trim(value.s) = <<>> \/ StartsWith(ToLowerCase(Trim(value.s)), StrJavascript) THEN <<>>
  ELSE IF StartsWith(Trim(value.s), <<"/", "/">>)
    THEN ParseUrl(StrHttps \o <<":">> \o Trim(value.s)).href
  ELSE IF ~HasScheme(Trim(value.s))
    THEN ParseUrl(StrHttps \o <<":", "/", "/">> \o Trim(value.s)).href
  ELSE ParseUrl(Trim(value.s)).href

sanitizeHttpUrl(value) ==
  IF ~IsString(value) THEN <<>>
  ELSE LET trimmed == Trim(value.s)
           prefixed ==
             IF StartsWith(trimmed, <<"/", "/">>) THEN StrHttps \o <<":">> \o trimmed
             ELSE IF ~HasScheme(trimmed) THEN StrHttps \o <<":", "/", "/">> \o trimmed
             ELSE trimmed
           url == ParseUrl(prefixed)
       IN IF trimmed = <<>> \/ StartsWith(ToLowerCase(trimmed), StrJavascript) THEN <<>>
          ELSE IF ~url.ok THEN <<>>
          ELSE IF url.protocol # StrHttp \o <<":">> /\ url.protocol # StrHttps \o <<":">>
            THEN <<>>
          ELSE url.href

\* sanitizeIconSource without the test of the accepted prefixes.
sanitizeIconSourceAnyText(value) ==
  IF value.k # "str" THEN DEFAULT_ICON
  ELSE IF Trim(value.s) = <<>> \/ StartsWith(ToLowerCase(Trim(value.s)), StrJavascript)
    THEN DEFAULT_ICON
  ELSE Trim(value.s)

sanitizeIconSource(value) ==
  IF ~IsString(value) THEN DEFAULT_ICON
  ELSE LET trimmed == Trim(value.s)
           lower == ToLowerCase(trimmed)
       IN IF trimmed = <<>> \/ StartsWith(lower, StrJavascript) THEN DEFAULT_ICON
          ELSE IF \/ StartsWith(lower, StrHttp \o <<":", "/", "/">>)
                  \/ StartsWith(lower, StrHttps \o <<":", "/", "/">>)
                  \/ StartsWith(lower, <<"d","a","t","a",":","i","m","a","g","e","/">>)
                  \/ StartsWith(trimmed, <<".", "/">>)
                  \/ StartsWith(trimmed, <<"/">>)
            THEN trimmed
          ELSE DEFAULT_ICON

\* String(v) of a number n/100 >= 0 with at most two decimals.
NumberToString(n) ==
  LET whole == ToRadix(n \div Scale, 10)
      frac == n % Scale
  IN IF frac = 0 THEN whole
     ELSE IF frac % 10 = 0 THEN whole \o <<".">> \o ToRadix(frac \div 10, 10)
     ELSE whole \o <<".">> \o (IF frac < 10 THEN <<"0">> ELSE <<>>) \o ToRadix(frac, 10)

\* String(tag ?? "") for the values a tag list is given here.
JsToString(v) ==
  CASE v.k = "str" -> v.s
    [] v.k = "num" /\ v.n >= 0 -> NumberToString(v.n)
    [] v.k = "num" /\ v.n < 0 -> <<"-">> \o NumberToString(-v.n)
    [] v.k = "bool" -> IF v.b THEN <<"t","r","u","e">> ELSE <<"f","a","l","s","e">>
    [] v.k \in {"undefined", "null"} -> <<>>
    [] v.k = "nan" -> <<"N","a","N">>
    [] OTHER -> <<"[","o","b","j","e","c","t","]">>

FilterNonEmpty(seq) == SelectSeq(seq, LAMBDA t : t # <<>>)

sanitizeTagList(tags) ==
  IF ~IsArray(tags) THEN <<>>
  ELSE FilterNonEmpty([i \in 1..Len(tags.a) |-> Trim(JsToString(tags.a[i]))])

\* String.prototype.split(","): the pieces between the commas.
RECURSIVE SplitComma(_)
SplitComma(s) ==
  LET first == Until(s, {","})
  IN IF Len(first) = Len(s) THEN <<first>>
     ELSE <<first>> \o SplitComma(SubSeq(s, Len(first) + 2, Len(s)))

parseCustomTagString(value) ==
  IF ~IsString(value) THEN <<>>
  ELSE LET pieces == SplitComma(value.s)
       IN FilterNonEmpty([i \in 1..Len(pieces) |-> Trim(pieces[i])])

\* ------------------------------------------------------- identity resolver

IsSlugChar(c) == c \in Range(LowerAlpha) \/ IsDigit(c)

\* .replace(/[^a-z0-9]+/g, "-"): each run of other characters becomes one "-".
RECURSIVE ReplaceRuns(_, _)
ReplaceRuns(s, inRun) ==
  IF s = <<>> THEN <<>>
  ELSE IF IsSlugChar(Head(s)) THEN <<Head(s)>> \o ReplaceRuns(Tail(s), FALSE)
  ELSE (IF inRun THEN <<>> ELSE <<"-">>) \o ReplaceRuns(Tail(s), TRUE)

\* .replace(/^-+|-+$/g, "")
RECURSIVE StripDashes(_)
StripDashes(s) ==
  IF s # <<>> /\ Head(s) = "-" THEN StripDashes(Tail(s))
  ELSE IF s # <<>> /\ s[Len(s)] = "-" THEN StripDashes(SubSeq(s, 1, Len(s) - 1))
  ELSE s

\* now is the value of Date.now() at the call.
createSlugId(prefix, name, now) ==
  LET baseName == StripDashes(ReplaceRuns(ToLowerCase(name), FALSE))
      fallback == prefix \o <<"-">> \o ToRadix(now, 36)
  IN IF baseName # <<>> THEN prefix \o <<"-">> \o baseName ELSE fallback


\* sanitizeAppRecord without the rejection of custom records that lack a name
\* or a link.
sanitizeAppRecordKeepsAll(app, origin) ==
  IF app.k \notin {"obj", "arr"} THEN <<>>
  ELSE << [id |-> IF Get(app, "id").k = "str" THEN Trim(Get(app, "id").s) ELSE <<>>,
           name |-> IF Get(app, "name").k = "str" /\ Trim(Get(app, "name").s) # <<>>
                      THEN Trim(Get(app, "name").s) ELSE StrUntitled,
           description |-> IF Get(app, "description").k = "str"
                             THEN Trim(Get(app, "description").s) ELSE <<>>,
           url |-> sanitizeHttpUrl(Get(app, "url")),
           icon |-> sanitizeIconSource(Get(app, "icon")),
           tags |-> sanitizeTagList(Get(app, "tags")),
           origin |-> origin] >>

\* An app record.  A missing record (null) is the empty sequence and a record
\* r the sequence <<r>>.
sanitizeAppRecord(app, origin) ==
  IF ~IsTruthyObject(app) THEN <<>>
  ELSE LET rawName == Get(app, "name")
           rawDescription == Get(app, "description")
           rawId == Get(app, "id")
           name == IF IsString(rawName) THEN Trim(rawName.s) ELSE <<>>
           description == IF IsString(rawDescription) THEN Trim(rawDescription.s) ELSE <<>>
           url == sanitizeHttpUrl(Get(app, "url"))
           icon == sanitizeIconSource(Get(app, "icon"))
           tags == sanitizeTagList(Get(app, "tags"))
           id == IF IsString(rawId) THEN Trim(rawId.s) ELSE <<>>
       IN IF origin = StrCustom /\ (name = <<>> \/ url = <<>>) THEN <<>>
          ELSE << [id |-> id,
                   name |-> IF name # <<>> THEN name ELSE StrUntitled,
                   description |-> description,
                   url |-> url,
                   icon |-> icon,
                   tags |-> tags,
                   origin |-> origin] >>

\* The loop cut to one round: the suffix is tried once, not until unseen.
FirstUnseenOneRound(baseId, uniqueId, counter, seen) ==
  IF uniqueId \in seen THEN baseId \o <<"-">> \o ToRadix(counter, 10) ELSE uniqueId

\* while (seen.has(uniqueId)) { uniqueId = `${baseId}-${counter}`; counter += 1 }
RECURSIVE FirstUnseen(_, _, _, _)
FirstUnseen(baseId, uniqueId, counter, seen) ==
  IF uniqueId \in seen
    THEN FirstUnseen(baseId, baseId \o <<"-">> \o ToRadix(counter, 10), counter + 1, seen)
    ELSE uniqueId

\* The base id of one record: its trimmed id, or the slug of its name.
BaseIdOf(app, now) ==
  IF Trim(app.id) # <<>> THEN Trim(app.id)
  ELSE createSlugId(IF app.origin = StrCustom THEN StrCustom ELSE StrApp, app.name, now)

RECURSIVE EnsureFrom(_, _, _, _)
EnsureFrom(apps, i, seen, times) ==
  IF i > Len(apps) THEN <<>>
  ELSE LET baseId == BaseIdOf(apps[i], times[i])
           uniqueId == FirstUnseen(baseId, baseId, 2, seen)
       IN <<[apps[i] EXCEPT !.id = uniqueId]>>
            \o EnsureFrom(apps, i + 1, seen \cup {uniqueId}, times)

\* ensureUniqueAppIds without the seen set: every record keeps its base id.
ensureUniqueAppIdsNoSeen(apps, times) ==
  [i \in 1..Len(apps) |-> [apps[i] EXCEPT !.id = BaseIdOf(apps[i], times[i])]]

\* times[i] is the value of Date.now() when record i is given its id.
ensureUniqueAppIds(apps, times) == EnsureFrom(apps, 1, {}, times)

\* dedupeHiddenIds without the look-up in the ids of apps.
dedupeHiddenIdsNoLookup(hiddenIds, apps) ==
  IF hiddenIds.k # "arr" THEN <<>>
  ELSE SelectSeq([i \in 1..Len(hiddenIds.a) |->
                    IF hiddenIds.a[i].k = "str" THEN Trim(hiddenIds.a[i].s) ELSE <<>>],
                 LAMBDA id : id # <<>>)

\* hiddenIds is an untyped value, apps a sequence of app records.
dedupeHiddenIds(hiddenIds, apps) ==
  IF ~IsArray(hiddenIds) THEN <<>>
  ELSE LET validIds == { apps[i].id : i \in 1..Len(apps) }
           mapped == [i \in 1..Len(hiddenIds.a) |->
                        IF IsString(hiddenIds.a[i]) THEN Trim(hiddenIds.a[i].s) ELSE <<>>]
       IN SelectSeq(mapped, LAMBDA id : id # <<>> /\ id \in validIds)

\* ------------------------------------------------------------------ colors

IsHexDigit(c) == ToLowerChar(c) \in Range(SubSeq(Base36Chars, 1, 16))
HexDigitValue(c) == IndexOf(Base36Chars, ToLowerChar(c)) - 1

RECURSIVE HexRun(_)
HexRun(s) ==
  IF s # <<>> /\ IsHexDigit(Head(s)) THEN <<Head(s)>> \o HexRun(Tail(s)) ELSE <<>>

RECURSIVE HexValue(_, _)
HexValue(digits, acc) ==
  IF digits = <<>> THEN acc
  ELSE HexValue(Tail(digits), acc * 16 + HexDigitValue(Head(digits)))

\* Number.parseInt(s, 16): leading white space, a sign, an optional 0x, then
\* the longest run of hexadecimal digits; NaN when the run is empty.
ParseIntHex(s) ==
  LET t == TrimStart(s)
      neg == t # <<>> /\ Head(t) = "-"
      u == IF t # <<>> /\ Head(t) \in {"-", "+"} THEN Tail(t) ELSE t
      w == IF Len(u) >= 2 /\ u[1] = "0" /\ u[2] \in {"x", "X"} THEN Tail(Tail(u)) ELSE u
      run == HexRun(w)
  IN IF run = <<>> THEN NotANumber
     ELSE Finite(IF neg THEN -HexValue(run, 0) ELSE HexValue(run, 0))

\* The RGB triple of a color, or the empty sequence (null).
hexToRgb(hex) ==
  IF ~IsString(hex) THEN <<>>
  ELSE LET trimmed == Trim(hex.s)
           withoutHash == IF StartsWith(trimmed, <<"#">>) THEN Tail(trimmed) ELSE trimmed
           normalized ==
             IF Len(withoutHash) = 3
               THEN [i \in 1..6 |-> withoutHash[(i + 1) \div 2]]
               ELSE withoutHash
           value == ParseIntHex(normalized)
       IN IF trimmed = <<>> THEN <<>>
          ELSE IF Len(normalized) # 6 THEN <<>>
          ELSE IF ~value.finite THEN <<>>
          ELSE << [r |-> (value.n \div 65536) % 256,
                   g |-> (value.n \div 256) % 256,
                   b |-> value.n % 256] >>

\* component.toString(16).padStart(2, "0")
ToHex(component) ==
  IF component < 16 THEN <<"0">> \o ToRadix(component, 16) ELSE ToRadix(component, 16)

rgbToHex(rgb) == <<"#">> \o ToHex(rgb.r) \o ToHex(rgb.g) \o ToHex(rgb.b)

\* fallback is a string.
resolveHexColor(value, fallback) ==
  LET rgb == hexToRgb(value)
      fallbackRgb == hexToRgb(JsStr(fallback))
  IN IF rgb # <<>> THEN rgbToHex(rgb[1])
     ELSE IF fallbackRgb # <<>> THEN rgbToHex(fallbackRgb[1])
     ELSE fallback

\* /javascript:/i.test(s): the text occurs anywhere in s.
ContainsJavascript(s) ==
  \E i \in 1..Len(s) : StartsWith(ToLowerCase(SubSeq(s, i, Len(s))), StrJavascript)

sanitizeBackgroundImage(value) ==
  IF ~IsString(value) THEN <<>>
  ELSE LET trimmed == Trim(value.s)
       IN IF trimmed = <<>> \/ ContainsJavascript(trimmed) THEN <<>> ELSE trimmed


\* ----------------------------------------------------- settings reconciler

\* defaultSettings of src/lib/constants.ts (not among the sources): a valid
\* settings object.  hasCompletedSetup is kept as an untyped value because the
\* reconciler copies it from its input unchecked.
defaultSettings ==
  [backgroundType |-> StrImage,
   backgroundColor |-> <<"#","0","f","1","7","2","a">>,
   backgroundImage |-> <<"/", "b">>,
   overlayOpacity |-> 35,
   blurStrength |-> 800,
   glassTintColor |-> <<"#","0","f","1","7","2","a">>,
   glassTintOpacity |-> 40,
   hideDefaultApps |-> FALSE,
   mobileLayout |-> StrGrid,
   hasCompletedSetup |-> JsBool(FALSE)]

\* Boolean(v)
ToBoolean(v) == ~IsFalsy(v)

\* partial is an untyped object; keys other than the settings' own are not
\* carried along.
updateSettingsFromForm(base, partial) ==
  [backgroundType |->
     IF Get(partial, "backgroundType") = JsStr(StrColor) THEN StrColor ELSE StrImage,
   backgroundColor |->
     resolveHexColor(Get(partial, "backgroundColor"), defaultSettings.backgroundColor),
   backgroundImage |-> sanitizeBackgroundImage(Get(partial, "backgroundImage")),
   overlayOpacity |->
     clampNumber(Get(partial, "overlayOpacity"), 0, 60, defaultSettings.overlayOpacity),
   blurStrength |->
     clampNumber(Get(partial, "blurStrength"), 0, 20 * Scale, defaultSettings.blurStrength),
   glassTintColor |->
     resolveHexColor(Get(partial, "glassTintColor"), defaultSettings.glassTintColor),
   glassTintOpacity |->
     clampNumber(Get(partial, "glassTintOpacity"), 5, 95, defaultSettings.glassTintOpacity),
   hideDefaultApps |->
     ToBoolean(Coalesce(Get(partial, "hideDefaultApps"), JsBool(base.hideDefaultApps))),
   mobileLayout |->
     IF Get(partial, "mobileLayout") = JsStr(StrList) THEN StrList
     ELSE IF Get(partial, "mobileLayout") = JsStr(StrGrid) THEN StrGrid
     ELSE base.mobileLayout,
   hasCompletedSetup |->
     IF "hasCompletedSetup" \in DOMAIN partial.f
       THEN partial.f["hasCompletedSetup"]
       ELSE base.hasCompletedSetup]

\* mergeUserData reading customApps from base only.
mergeUserDataKeepsBaseCustomApps(base, partial) ==
  [hiddenAppIds |->
     IF "hiddenAppIds" \in DOMAIN partial THEN partial["hiddenAppIds"]
     ELSE base.hiddenAppIds,
   customApps |-> base.customApps,
   pageSize |->
     normalizePageSize(
       IF "pageSize" \in DOMAIN partial /\ ~Nullish(partial["pageSize"])
         THEN partial["pageSize"]
         ELSE JsNum(base.pageSize))]

\* partial is a function from the keys it supplies (hiddenAppIds, customApps,
\* pageSize) to their values; pageSize is an untyped value.
mergeUserData(base, partial) ==
  [hiddenAppIds |->
     IF "hiddenAppIds" \in DOMAIN partial THEN partial["hiddenAppIds"]
     ELSE base.hiddenAppIds,
   customApps |->
     IF "customApps" \in DOMAIN partial THEN partial["customApps"]
     ELSE base.customApps,
   pageSize |->
     normalizePageSize(
       IF "pageSize" \in DOMAIN partial /\ ~Nullish(partial["pageSize"])
         THEN partial["pageSize"]
         ELSE JsNum(base.pageSize))]

\* ------------------------------------------------------------ backup codec

StrSeqToJson(seq) == JsArr([i \in 1..Len(seq) |-> JsStr(seq[i])])

AppToJson(app) ==
  JsObj([id |-> JsStr(app.id),
         name |-> JsStr(app.name),
         description |-> JsStr(app.description),
         url |-> JsStr(app.url),
         icon |-> JsStr(app.icon),
         tags |-> StrSeqToJson(app.tags),
         origin |-> JsStr(app.origin)])

SettingsToJson(st) ==
  JsObj([backgroundType |-> JsStr(st.backgroundType),
         backgroundColor |-> JsStr(st.backgroundColor),
         backgroundImage |-> JsStr(st.backgroundImage),
         overlayOpacity |-> JsNum(st.overlayOpacity),
         blurStrength |-> JsNum(st.blurStrength),
         glassTintColor |-> JsStr(st.glassTintColor),
         glassTintOpacity |-> JsNum(st.glassTintOpacity),
         hideDefaultApps |-> JsBool(st.hideDefaultApps),
         mobileLayout |-> JsStr(st.mobileLayout),
         hasCompletedSetup |-> st.hasCompletedSetup])

UserDataToJson(ud) ==
  JsObj([hiddenAppIds |-> StrSeqToJson(ud.hiddenAppIds),
         customApps |-> JsArr([i \in 1..Len(ud.customApps) |-> AppToJson(ud.customApps[i])]),
         pageSize |-> JsNum(ud.pageSize)])

\* JSON.parse(JSON.stringify(v)): a key whose value is undefined is dropped,
\* undefined in a list and the numbers that are not finite become null.
RECURSIVE JsonRoundTrip(_)
JsonRoundTrip(v) ==
  CASE v.k = "obj" ->
         LET kept == { key \in DOMAIN v.f : v.f[key].k # "undefined" }
         IN JsObj([key \in kept |-> JsonRoundTrip(v.f[key])])
    [] v.k = "arr" -> JsArr([i \in 1..Len(v.a) |-> JsonRoundTrip(v.a[i])])
    [] v.k \in {"undefined", "nan", "infinity"} -> JsNull
    [] OTHER -> v

\* The payload exportBackup writes, as read back from the file.  version,
\* appVersion and generatedAt are constants of the build and the clock.
exportPayload(st, ud) ==
  JsonRoundTrip(
    JsObj([version |-> JsNum(Scale),
           appVersion |-> JsStr(<<"v">>),
           generatedAt |-> JsStr(<<"t">>),
           settings |-> SettingsToJson(st),
           userData |-> UserDataToJson(ud)]))


\* ------------------------------------------------- collection and its views
\* src/lib/apps.ts, src/lib/api.ts and src/lib/storage.ts are not among the
\* sources; the operators below follow the specification's sections 4.3, 4.4
\* and 6.

\* The collation order of the characters that occur in names.
CollationChars ==
  <<" ", "!", "-", ".", "/", ":">> \o DigitChars \o LowerAlpha

CharRank(c) ==
  IF c \in Range(CollationChars) THEN IndexOf(CollationChars, c) ELSE 0

\* a.localeCompare(b) < 0, case-insensitive.
RECURSIVE NameBefore(_, _)
NameBefore(a, b) ==
  IF b = <<>> THEN FALSE
  ELSE IF a = <<>> THEN TRUE
  ELSE LET ra == CharRank(ToLowerChar(Head(a)))
           rb == CharRank(ToLowerChar(Head(b)))
       IN IF ra # rb THEN ra < rb ELSE NameBefore(Tail(a), Tail(b))

\* Insert app after every record that does not come after it (stable).
RECURSIVE InsertByName(_, _)
InsertByName(sorted, app) ==
  IF sorted = <<>> THEN <<app>>
  ELSE IF NameBefore(app.name, Head(sorted).name) THEN <<app>> \o sorted
  ELSE <<Head(sorted)>> \o InsertByName(Tail(sorted), app)

RECURSIVE sortAppsByName(_)
sortAppsByName(apps) ==
  IF apps = <<>> THEN <<>>
  ELSE InsertByName(sortAppsByName(SubSeq(apps, 1, Len(apps) - 1)), apps[Len(apps)])

\* fetchCatalogApps: the raw catalog through the app-record sanitizer.
RECURSIVE SanitizeAll(_, _)
SanitizeAll(raws, origin) ==
  IF raws = <<>> THEN <<>>
  ELSE sanitizeAppRecord(Head(raws), origin) \o SanitizeAll(Tail(raws), origin)

fetchCatalogApps(raws) == SanitizeAll(raws, StrCatalog)

\* The catalogApps memo with the custom apps put before the catalog.
MergedCollectionCustomFirst(catalog, customApps, hideDefaultApps, times) ==
  sortAppsByName(ensureUniqueAppIds(customApps \o (IF hideDefaultApps THEN <<>> ELSE catalog),
                                    times))

\* The useMemo body of catalogApps.
MergedCollection(catalog, customApps, hideDefaultApps, times) ==
  LET cataloguePart == IF hideDefaultApps THEN <<>> ELSE catalog
      allApps == cataloguePart \o customApps
  IN sortAppsByName(ensureUniqueAppIds(allApps, times))

IdsOf(apps) == { apps[i].id : i \in 1..Len(apps) }

\* splitApps leaving the hidden apps among the visible ones too.
splitAppsVisibleAll(apps, hiddenIds) ==
  [visible |-> apps,
   hidden |-> SelectSeq(apps, LAMBDA a : a.id \in Range(hiddenIds))]

splitApps(apps, hiddenIds) ==
  [visible |-> SelectSeq(apps, LAMBDA a : a.id \notin Range(hiddenIds)),
   hidden |-> SelectSeq(apps, LAMBDA a : a.id \in Range(hiddenIds))]

\* s.includes(t)
Includes(s, t) == \E i \in 1..(Len(s) + 1) : StartsWith(SubSeq(s, i, Len(s)), t)

RECURSIVE JoinWithSpace(_)
JoinWithSpace(tags) ==
  IF tags = <<>> THEN <<>>
  ELSE IF Len(tags) = 1 THEN Head(tags)
  ELSE Head(tags) \o <<" ">> \o JoinWithSpace(Tail(tags))

filterApps(apps, term) ==
  LET needle == ToLowerCase(Trim(term))
  IN IF needle = <<>> THEN apps
     ELSE SelectSeq(apps, LAMBDA a :
            \/ Includes(ToLowerCase(a.name), needle)
            \/ Includes(ToLowerCase(a.description), needle)
            \/ Includes(ToLowerCase(JoinWithSpace(a.tags)), needle))

buildHiddenAppsGroup(count) ==
  [id |-> <<"h","i","d","d","e","n","-","g","r","o","u","p">>,
   type |-> "hidden-group",
   count |-> count]

\* app.type === "hidden-group"; app records carry no type.
IsHiddenGroup(record) == "type" \in DOMAIN record /\ record.type = "hidden-group"

\* pageSize is a number (in hundredths); the result is a count of pages.
getTotalPages(apps, isMobile, pageSize) ==
  IF isMobile THEN 1
  ELSE LET perPage == pageSize \div Scale
       IN Max(1, (Len(apps) + perPage - 1) \div perPage)

\* filteredApps with the tile appended whatever the search term is.
FilteredAppsIgnoringSearch(apps, hiddenIds, term) ==
  IF Len(splitApps(apps, hiddenIds).hidden) > 0
    THEN Append(filterApps(splitApps(apps, hiddenIds).visible, term),
                buildHiddenAppsGroup(Len(splitApps(apps, hiddenIds).hidden)))
    ELSE filterApps(splitApps(apps, hiddenIds).visible, term)

FilteredApps(apps, hiddenIds, term) ==
  LET split == splitApps(apps, hiddenIds)
      filteredVisible == filterApps(split.visible, term)
  IN IF Trim(term) = <<>> /\ Len(split.hidden) > 0
       THEN Append(filteredVisible, buildHiddenAppsGroup(Len(split.hidden)))
       ELSE filteredVisible


\* -------------------------------------------------------------------- state

VARIABLES
  hydration,        \* "pending" | "ready"
  settings,         \* LaunchpadSettings
  userData,         \* LaunchpadUserData
  baseCatalog,      \* the fetched catalog
  catalogApps,      \* the memoized merged collection
  searchTerm,
  currentPage,
  activeIndex,
  isLoading,
  error,            \* <<>> (null) or <<[message |-> ...]>>
  modals,           \* [settings, addApp, hiddenApps]
  contextMenu,      \* [appId, source, position]
  editingAppId,     \* JsNull or JsStr(id)
  isMobileLayout,   \* the hook's argument
  storedSettings,   \* what saveSettingsToStorage wrote last: <<>> or <<settings>>
  storedUserData,   \* what saveUserDataToStorage wrote last: <<>> or <<userData>>
  fetchState,       \* the load() calls in flight, oldest first: "live" | "cancelled"
  result,           \* the value the last handler returned
  formName,         \* AddAppModal: formState.name
  isFetchingTitle,  \* AddAppModal
  metadataRequestIdRef, \* AddAppModal: metadataRequestIdRef.current
  titleLookups,     \* AddAppModal: the fetchTitleForUrl calls awaiting their response
  viewportSize      \* LaunchpadApp: [width, height]

vars ==
  <<hydration, settings, userData, baseCatalog, catalogApps, searchTerm,
    currentPage, activeIndex, isLoading, error, modals, contextMenu,
    editingAppId, isMobileLayout, storedSettings, storedUserData, fetchState,
    result, formName, isFetchingTitle, metadataRequestIdRef, titleLookups,
    viewportSize>>

\* The state of the components that render the hook.
components ==
  <<formName, isFetchingTitle, metadataRequestIdRef, titleLookups, viewportSize>>

\* The useState and useRef initial values of AddAppModal and LaunchpadApp.
ComponentsMounted ==
  /\ formName = <<>>
  /\ isFetchingTitle = FALSE
  /\ metadataRequestIdRef = 0
  /\ titleLookups = <<>>
  /\ viewportSize = [width |-> 0, height |-> 0]

initialContextMenu == [appId |-> JsNull, source |-> JsNull, position |-> JsNull]

\* A handler that returns nothing.
NoResult == [op |-> "none", success |-> TRUE, message |-> ""]
Returned(op, success, message) == [op |-> op, success |-> success, message |-> message]

filteredApps == FilteredApps(catalogApps, userData.hiddenAppIds, searchTerm)
\* totalPages computed as on desktop in either layout.
totalPagesIgnoringLayout == getTotalPages(filteredApps, FALSE, userData.pageSize)

totalPages == getTotalPages(filteredApps, isMobileLayout, userData.pageSize)
desktopPageSize == normalizePageSize(JsNum(userData.pageSize))
hiddenApps == splitApps(catalogApps, userData.hiddenAppIds).hidden
visibleApps == splitApps(catalogApps, userData.hiddenAppIds).visible

findAppById(apps, id) ==
  IF IsFalsy(id) THEN <<>> ELSE SelectSeq(apps, LAMBDA a : JsStr(a.id) = id)

Init ==
  /\ hydration = "pending"
  /\ settings = defaultSettings
  /\ userData = defaultUserData
  /\ baseCatalog = <<>>
  /\ catalogApps = <<>>
  /\ searchTerm = <<>>
  /\ currentPage = 0
  /\ activeIndex = -1
  /\ isLoading = TRUE
  /\ error = <<>>
  /\ modals = [settings |-> FALSE, addApp |-> FALSE, hiddenApps |-> FALSE]
  /\ contextMenu = initialContextMenu
  /\ editingAppId = JsNull
  /\ isMobileLayout = FALSE
  /\ ComponentsMounted
  /\ storedSettings = <<>>
  /\ storedUserData = <<>>
  /\ fetchState = <<>>
  /\ result = NoResult

\* Commit without the effect that closes the context menu.
CommitKeepsMenu(st, ud, catalog, newArrays, term, page, active, menu) ==
  /\ settings' = st
  /\ userData' = ud
  /\ baseCatalog' = catalog
  /\ searchTerm' = term
  /\ IF newArrays \/ st.hideDefaultApps # settings.hideDefaultApps
       THEN catalogApps' \in
              { MergedCollection(catalog, ud.customApps, st.hideDefaultApps,
                                 [i \in 1..(Len(catalog) + Len(ud.customApps)) |-> now]) :
                  now \in 0..MaxClock }
       ELSE catalogApps' = catalogApps
  /\ LET filtered == FilteredApps(catalogApps', ud.hiddenAppIds, term)
         total == getTotalPages(filtered, isMobileLayout, ud.pageSize)
     IN /\ currentPage' =
             IF total # totalPages
               THEN (IF isMobileLayout THEN 0
                     ELSE IF page >= total THEN Max(total - 1, 0)
                     ELSE page)
               ELSE page
        /\ activeIndex' =
             IF Len(filtered) # Len(filteredApps) \/ term # searchTerm
               THEN (IF Trim(term) = <<>> THEN -1
                     ELSE IF Len(filtered) > 0 THEN 0
                     ELSE -1)
               ELSE active
        /\ contextMenu' = menu

\* The state a render and its effects settle in, given what the handler set:
\* the catalogApps memo (recomputed when baseCatalog or customApps is a new
\* array, or hideDefaultApps changed), the page clamp, the active-index reset
\* and the context-menu reset.  One Date.now() value serves a whole pass.
Commit(st, ud, catalog, newArrays, term, page, active, menu) ==
  /\ settings' = st
  /\ userData' = ud
  /\ baseCatalog' = catalog
  /\ searchTerm' = term
  /\ IF newArrays \/ st.hideDefaultApps # settings.hideDefaultApps
       THEN catalogApps' \in
              { MergedCollection(catalog, ud.customApps, st.hideDefaultApps,
                                 [i \in 1..(Len(catalog) + Len(ud.customApps)) |-> now]) :
                  now \in 0..MaxClock }
       ELSE catalogApps' = catalogApps
  /\ LET filtered == FilteredApps(catalogApps', ud.hiddenAppIds, term)
         total == getTotalPages(filtered, isMobileLayout, ud.pageSize)
     IN /\ currentPage' =
             IF total # totalPages
               THEN (IF isMobileLayout THEN 0
                     ELSE IF page >= total THEN Max(total - 1, 0)
                     ELSE page)
               ELSE page
        /\ activeIndex' =
             IF Len(filtered) # Len(filteredApps) \/ term # searchTerm
               THEN (IF Trim(term) = <<>> THEN -1
                     ELSE IF Len(filtered) > 0 THEN 0
                     ELSE -1)
               ELSE active
        /\ contextMenu' =
             IF ~IsFalsy(menu.appId) /\ findAppById(catalogApps', menu.appId) = <<>>
               THEN initialContextMenu
               ELSE menu

\* The first effect (hydration) and the start of load() in the second one.
\* An empty store reads as the defaults.
Hydrate ==
  /\ hydration = "pending"
  /\ hydration' = "ready"
  /\ isLoading' = TRUE
  /\ error' = <<>>
  /\ fetchState' = <<"live">>
  /\ Commit(IF storedSettings = <<>> THEN defaultSettings ELSE storedSettings[1],
            IF storedUserData = <<>> THEN defaultUserData ELSE storedUserData[1],
            baseCatalog, TRUE, searchTerm, currentPage, activeIndex, contextMenu)
  /\ result' = NoResult
  /\ UNCHANGED <<modals, editingAppId, isMobileLayout, components, storedSettings, storedUserData>>

\* seq without its element i.
RemoveAt(seq, i) == SubSeq(seq, 1, i - 1) \o SubSeq(seq, i + 1, Len(seq))

UnchangedByStaleLoad ==
  UNCHANGED <<settings, userData, baseCatalog, catalogApps, searchTerm, currentPage,
              activeIndex, contextMenu, isLoading, error>>

\* FetchSucceed applying the catalog whatever the load's cancelled flag says.
FetchSucceedIgnoringCancel(raws) ==
  /\ \E i \in DOMAIN fetchState : fetchState' = RemoveAt(fetchState, i)
  /\ isLoading' = FALSE
  /\ Commit(settings, userData, fetchCatalogApps(raws), TRUE,
            searchTerm, currentPage, activeIndex, contextMenu)
  /\ result' = NoResult
  /\ UNCHANGED <<hydration, error, modals, editingAppId, isMobileLayout, components,
                 storedSettings, storedUserData>>

\* load(): fetchCatalogApps of one of the loads in flight resolved with the
\* catalog made of raws.
FetchSucceed(raws) ==
  /\ \E i \in DOMAIN fetchState :
       /\ fetchState' = RemoveAt(fetchState, i)
       /\ IF fetchState[i] = "live"
            THEN /\ isLoading' = FALSE
                 /\ Commit(settings, userData, fetchCatalogApps(raws), TRUE,
                           searchTerm, currentPage, activeIndex, contextMenu)
                 /\ UNCHANGED error
            ELSE UnchangedByStaleLoad
  /\ result' = NoResult
  /\ UNCHANGED <<hydration, modals, editingAppId, isMobileLayout, components,
                 storedSettings, storedUserData>>

\* FetchFail leaving isLoading as it is.
FetchFailKeepsLoading ==
  /\ \E i \in DOMAIN fetchState :
       /\ fetchState' = RemoveAt(fetchState, i)
       /\ IF fetchState[i] = "live"
            THEN /\ isLoading' = isLoading
                 /\ error' = <<[message |-> "Unknown error loading apps"]>>
                 /\ Commit(settings, userData, baseCatalog, FALSE,
                           searchTerm, currentPage, activeIndex, contextMenu)
            ELSE UnchangedByStaleLoad
  /\ result' = NoResult
  /\ UNCHANGED <<hydration, modals, editingAppId, isMobileLayout, components,
                 storedSettings, storedUserData>>

\* load(): fetchCatalogApps of one of the loads in flight rejected.
FetchFail ==
  /\ \E i \in DOMAIN fetchState :
       /\ fetchState' = RemoveAt(fetchState, i)
       /\ IF fetchState[i] = "live"
            THEN /\ isLoading' = FALSE
                 /\ error' = <<[message |-> "Unknown error loading apps"]>>
                 /\ Commit(settings, userData, baseCatalog, FALSE,
                           searchTerm, currentPage, activeIndex, contextMenu)
            ELSE UnchangedByStaleLoad
  /\ result' = NoResult
  /\ UNCHANGED <<hydration, modals, editingAppId, isMobileLayout, components,
                 storedSettings, storedUserData>>

\* The cleanup of the load effect: cancelled = true for the load it started.
CancelAll(loads) == [i \in DOMAIN loads |-> "cancelled"]

\* The component is torn down: the cleanup runs.
Teardown ==
  /\ "live" \in Range(fetchState)
  /\ fetchState' = CancelAll(fetchState)
  /\ UNCHANGED <<hydration, settings, userData, baseCatalog, catalogApps, searchTerm,
                 currentPage, activeIndex, isLoading, error, modals, contextMenu,
                 editingAppId, isMobileLayout, components, storedSettings, storedUserData, result>>

\* The load effect runs again: the cleanup of its last run, then load() once
\* more.
RunLoadEffect ==
  /\ hydration = "ready"
  /\ Len(fetchState) < MaxLoads
  /\ fetchState' = Append(CancelAll(fetchState), "live")
  /\ isLoading' = TRUE
  /\ error' = <<>>
  /\ UNCHANGED <<hydration, settings, userData, baseCatalog, catalogApps, searchTerm,
                 currentPage, activeIndex, modals, contextMenu, editingAppId,
                 isMobileLayout, components, storedSettings, storedUserData, result>>


\* ----------------------------------------------------------------- handlers

\* Array.from(new Set(seq)): first occurrences, in order.
RECURSIVE Dedupe(_)
Dedupe(seq) ==
  IF seq = <<>> THEN <<>>
  ELSE LET init == Dedupe(SubSeq(seq, 1, Len(seq) - 1))
           last == seq[Len(seq)]
       IN IF last \in Range(init) THEN init ELSE Append(init, last)

Persisted(ud) == <<ud>>

\* Everything but userData, its store, the views and the returned value.
UnchangedByUserDataHandlers ==
  UNCHANGED <<hydration, isLoading, error, modals, editingAppId, isMobileLayout, components,
              storedSettings, fetchState>>

hideApp(appId) ==
  /\ hydration = "ready"
  /\ LET hiddenSet == Dedupe(Append(userData.hiddenAppIds, appId))
         deduped == dedupeHiddenIds(StrSeqToJson(hiddenSet), catalogApps)
         next == [userData EXCEPT !.hiddenAppIds = deduped]
     IN IF appId = <<>>
          THEN UNCHANGED <<settings, userData, baseCatalog, catalogApps, searchTerm,
                           currentPage, activeIndex, contextMenu, storedUserData>>
          ELSE /\ storedUserData' = Persisted(next)
               /\ Commit(settings, next, baseCatalog, FALSE,
                         searchTerm, currentPage, activeIndex, contextMenu)
  /\ result' = NoResult
  /\ UnchangedByUserDataHandlers

showApp(appId) ==
  /\ hydration = "ready"
  /\ LET hiddenSet == SelectSeq(Dedupe(userData.hiddenAppIds), LAMBDA id : id # appId)
         deduped == dedupeHiddenIds(StrSeqToJson(hiddenSet), catalogApps)
         next == [userData EXCEPT !.hiddenAppIds = deduped]
     IN IF appId = <<>>
          THEN UNCHANGED <<settings, userData, baseCatalog, catalogApps, searchTerm,
                           currentPage, activeIndex, contextMenu, storedUserData>>
          ELSE /\ storedUserData' = Persisted(next)
               /\ Commit(settings, next, baseCatalog, FALSE,
                         searchTerm, currentPage, activeIndex, contextMenu)
  /\ result' = NoResult
  /\ UnchangedByUserDataHandlers

removeCustomApp(appId) ==
  /\ hydration = "ready"
  /\ LET next == [userData EXCEPT
                    !.customApps = SelectSeq(userData.customApps, LAMBDA a : a.id # appId),
                    !.hiddenAppIds = SelectSeq(userData.hiddenAppIds, LAMBDA id : id # appId)]
     IN /\ storedUserData' = Persisted(next)
        /\ Commit(settings, next, baseCatalog, TRUE,
                  searchTerm, currentPage, activeIndex, contextMenu)
  /\ result' = NoResult
  /\ UnchangedByUserDataHandlers

\* size is an untyped value.
setDesktopPageSize(size) ==
  /\ hydration = "ready"
  /\ LET normalized == normalizePageSize(size)
         next == [userData EXCEPT !.pageSize = normalized]
     IN /\ storedUserData' =
             IF userData.pageSize = normalized THEN storedUserData ELSE Persisted(next)
        /\ Commit(settings, next, baseCatalog, FALSE,
                  searchTerm, currentPage, activeIndex, contextMenu)
  /\ result' = NoResult
  /\ UnchangedByUserDataHandlers

\* ----------------------------------------------------------- submitCustomApp

\* input: [id, name, url, description, tagsInput, iconChoice, iconCustom], each
\* an untyped value (id and the optional fields may be undefined).
SubmitIcon(input) ==
  IF input.iconChoice = JsStr(StrCustom)
    THEN sanitizeIconSource(Coalesce(input.iconCustom, JsStr(<<>>)))
  ELSE IF IsString(input.iconChoice) THEN sanitizeIconSource(input.iconChoice)
  ELSE DEFAULT_ICON

SubmitBaseApp(input) ==
  sanitizeAppRecord(
    JsObj([id |-> input.id,
           name |-> JsStr(Trim(input.name.s)),
           description |->
             IF IsString(input.description) THEN JsStr(Trim(input.description.s))
             ELSE JsStr(<<>>),
           url |-> JsStr(sanitizeHttpUrl(input.url)),
           icon |-> JsStr(SubmitIcon(input)),
           tags |->
             IF ~IsFalsy(input.tagsInput)
               THEN StrSeqToJson(parseCustomTagString(input.tagsInput))
               ELSE JsArr(<<>>)]),
    StrCustom)

\* The rejections without the check of the custom icon.
SubmitRejectionNoIconCheck(input) ==
  IF Trim(input.name.s) = <<>> THEN "Please enter a name."
  ELSE IF sanitizeHttpUrl(input.url) = <<>> THEN "Please enter a valid link."
  ELSE IF SubmitBaseApp(input) = <<>>
    THEN "Unable to create the app. Please check the fields again."
  ELSE ""

\* The message of the rejection, or "" when the input is accepted.
SubmitRejection(input) ==
  IF Trim(input.name.s) = <<>> THEN "Please enter a name."
  ELSE IF sanitizeHttpUrl(input.url) = <<>> THEN "Please enter a valid link."
  ELSE IF input.iconChoice = JsStr(StrCustom)
          /\ Trim(Coalesce(input.iconCustom, JsStr(<<>>)).s) = <<>>
    THEN "Paste an icon URL or pick a preset."
  ELSE IF SubmitBaseApp(input) = <<>>
    THEN "Unable to create the app. Please check the fields again."
  ELSE ""

\* input.id?.trim() || baseApp.id
SubmitPreviousId(input, baseApp) ==
  IF IsString(input.id) /\ Trim(input.id.s) # <<>> THEN Trim(input.id.s) ELSE baseApp.id

\* The id the updater settles on: the one being edited, or a fresh slug moved
\* past the ids of the displayed collection.
SubmitTargetId(previousId, baseId) ==
  IF previousId = <<>>
    THEN FirstUnseen(baseId, baseId, 2, IdsOf(catalogApps) \ {previousId})
  ELSE Trim(previousId)

SubmitReplace(prev, previousId, prepared) ==
  [prev EXCEPT
     !.customApps =
       Append(SelectSeq(prev.customApps, LAMBDA a : a.id # previousId /\ a.id # prepared.id),
              prepared),
     !.hiddenAppIds =
       SelectSeq(prev.hiddenAppIds, LAMBDA h : h # previousId /\ h # prepared.id)]

SubmitPrepare(prev, baseApp, previousId, now) ==
  SubmitReplace(prev, previousId,
                [baseApp EXCEPT
                   !.id = SubmitTargetId(previousId, createSlugId(StrCustom, baseApp.name, now)),
                   !.origin = StrCustom])

\* The setUserData updater of submitCustomApp, for an accepted baseApp.
SubmitUpdate(prev, input, baseApp, now) ==
  SubmitPrepare(prev, baseApp, SubmitPreviousId(input, baseApp), now)

SubmitCommit(next) ==
  /\ Len(next.customApps) <= MaxCustom
  /\ storedUserData' = Persisted(next)
  /\ Commit(settings, next, baseCatalog, TRUE, searchTerm, currentPage, activeIndex,
            contextMenu)

SubmitOutcome(input, rejection) ==
  IF rejection # ""
    THEN /\ result' = Returned("submitCustomApp", FALSE, rejection)
         /\ UNCHANGED <<settings, userData, baseCatalog, catalogApps, searchTerm,
                        currentPage, activeIndex, contextMenu, storedUserData,
                        modals, editingAppId>>
    ELSE /\ \E now \in 0..MaxClock :
              SubmitCommit(SubmitUpdate(userData, input, SubmitBaseApp(input)[1], now))
         /\ editingAppId' = JsNull
         /\ modals' = [modals EXCEPT !.addApp = FALSE]
         /\ result' = Returned("submitCustomApp", TRUE,
                               IF ~IsFalsy(input.id) THEN "App updated successfully."
                               ELSE "App saved successfully.")

submitCustomApp(input) ==
  /\ hydration = "ready"
  /\ SubmitOutcome(input, SubmitRejection(input))
  /\ UNCHANGED <<hydration, isLoading, error, isMobileLayout, components, storedSettings, fetchState>>


\* app: <<>> for the add form, <<app>> for the edit form of that app.
\* The effect of AddAppModal on modals.addApp and editingApp: the form is
\* filled from the custom app being edited, or emptied, the lookup state is
\* cleared and the request counter starts again. The responses still awaited
\* are no longer those of the form's current session.
FormReset(editing) ==
  /\ formName' = IF editing # <<>> /\ editing[1].origin = StrCustom THEN editing[1].name
                 ELSE <<>>
  /\ isFetchingTitle' = FALSE
  /\ metadataRequestIdRef' = 0
  /\ titleLookups' = [i \in DOMAIN titleLookups |-> [titleLookups[i] EXCEPT !.current = FALSE]]

openAddApp(app) ==
  /\ hydration = "ready"
  /\ editingAppId' = IF app # <<>> THEN JsStr(app[1].id) ELSE JsNull
  /\ modals' = [modals EXCEPT !.addApp = TRUE]
  /\ result' = NoResult
  /\ IF ~modals.addApp \/ editingAppId' # editingAppId
       THEN FormReset(findAppById(catalogApps, editingAppId'))
       ELSE UNCHANGED <<formName, isFetchingTitle, metadataRequestIdRef, titleLookups>>
  /\ UNCHANGED <<hydration, settings, userData, baseCatalog, catalogApps, searchTerm,
                 currentPage, activeIndex, isLoading, error, contextMenu,
                 isMobileLayout, viewportSize, storedSettings, storedUserData, fetchState>>

closeAddApp ==
  /\ hydration = "ready"
  /\ modals' = [modals EXCEPT !.addApp = FALSE]
  /\ editingAppId' = JsNull
  /\ result' = NoResult
  /\ UNCHANGED <<hydration, settings, userData, baseCatalog, catalogApps, searchTerm,
                 currentPage, activeIndex, isLoading, error, contextMenu,
                 isMobileLayout, components, storedSettings, storedUserData, fetchState>>

\* ------------------------------------------------------------- AddAppModal

\* What the hook holds, which the form's own handlers leave alone.
controller ==
  <<hydration, settings, userData, baseCatalog, catalogApps, searchTerm, currentPage,
    activeIndex, isLoading, error, modals, contextMenu, editingAppId, isMobileLayout,
    storedSettings, storedUserData, fetchState, result>>

\* Most fetchTitleForUrl calls awaiting their response, and most calls
\* between two resets of the form.
MaxLookups == 2

\* fetchTitleForUrl up to its await: a blank url returns at once; otherwise
\* the call takes the next request id and shows the spinner. The record of
\* the call also notes whether it is the latest call of the form's session.
\* Its callers, the onBlur of the link field and handleSubmit, call it while
\* the name field is blank.
StartTitleLookup(rawUrl) ==
  /\ modals.addApp
  /\ Trim(formName) = <<>>
  /\ Len(titleLookups) < MaxLookups
  /\ metadataRequestIdRef < MaxLookups
  /\ IF Trim(rawUrl) = <<>>
       THEN UNCHANGED <<metadataRequestIdRef, isFetchingTitle, titleLookups>>
       ELSE /\ metadataRequestIdRef' = metadataRequestIdRef + 1
            /\ isFetchingTitle' = TRUE
            /\ titleLookups' =
                 Append([i \in DOMAIN titleLookups |-> [titleLookups[i] EXCEPT !.current = FALSE]],
                        [requestId |-> metadataRequestIdRef + 1, current |-> TRUE])
  /\ UNCHANGED <<formName, viewportSize, controller>>

\* fetchTitleForUrl from its await on, for the call at position i: title is
\* the text of data.title, empty when the response is not ok, has no title or
\* the request failed. Both callers pass shouldFillForm.
TitleResponse(i, title) ==
  /\ i \in DOMAIN titleLookups
  /\ LET requestId == titleLookups[i].requestId
         resolvedTitle == Trim(title)
     IN /\ formName' =
             IF resolvedTitle # <<>> /\ metadataRequestIdRef = requestId /\ Trim(formName) = <<>>
               THEN resolvedTitle
             ELSE formName
        /\ isFetchingTitle' =
             IF metadataRequestIdRef = requestId THEN FALSE ELSE isFetchingTitle
  /\ titleLookups' = RemoveAt(titleLookups, i)
  /\ UNCHANGED <<metadataRequestIdRef, viewportSize, controller>>

\* The onChange of the name field.
ChangeName(text) ==
  /\ modals.addApp
  /\ formName' = text
  /\ UNCHANGED <<isFetchingTitle, metadataRequestIdRef, titleLookups, viewportSize, controller>>

\* ------------------------------------------------------------ LaunchpadApp

DESKTOP_CARD_MIN_WIDTH == 170
DESKTOP_CARD_MIN_HEIGHT == 140
DESKTOP_GRID_VERTICAL_PADDING == 100

\* The desktopGridMetrics memo, whole pixels: <<>> for null.
desktopGridMetrics ==
  LET width == viewportSize.width
      height == viewportSize.height
      gap == IF width >= 1280 THEN 32 ELSE IF width >= 1024 THEN 28 ELSE 24
      maxColumnsByWidth == Max(1, (width + gap) \div (DESKTOP_CARD_MIN_WIDTH + gap))
      availableHeight == Max(0, height - DESKTOP_GRID_VERTICAL_PADDING)
      maxRowsByHeight == Max(1, (availableHeight + gap) \div (DESKTOP_CARD_MIN_HEIGHT + gap))
  IN IF isMobileLayout \/ width = 0 \/ height = 0 THEN <<>>
     ELSE <<[gap |-> gap,
             maxColumnsByWidth |-> maxColumnsByWidth,
             maxRowsByHeight |-> maxRowsByHeight,
             rawLimit |-> Max(1, maxColumnsByWidth * maxRowsByHeight)]>>

\* desktopPageSizeLimit without the rounding down to a step.
desktopPageSizeLimitUnstepped ==
  IF desktopGridMetrics = <<>> THEN <<>>
  ELSE LET capped == Min(desktopGridMetrics[1].rawLimit, MAX_PAGE_SIZE)
       IN IF capped <= MIN_PAGE_SIZE THEN <<MIN_PAGE_SIZE>> ELSE <<capped>>

\* The desktopPageSizeLimit memo, in apps: <<>> for null.
desktopPageSizeLimit ==
  IF desktopGridMetrics = <<>> THEN <<>>
  ELSE LET capped == Min(desktopGridMetrics[1].rawLimit, MAX_PAGE_SIZE)
           steps == (capped - MIN_PAGE_SIZE) \div PAGE_SIZE_STEP
       IN IF capped <= MIN_PAGE_SIZE THEN <<MIN_PAGE_SIZE>>
          ELSE <<MIN_PAGE_SIZE + steps * PAGE_SIZE_STEP>>

\* The condition under which the auto-shrink effect goes past its return.
ShrinkDue ==
  /\ ~isMobileLayout
  /\ desktopPageSizeLimit # <<>>
  /\ desktopPageSize > desktopPageSizeLimit[1] * Scale

\* The auto-shrink effect, when it calls setDesktopPageSize.
ShrinkEffect ==
  /\ ShrinkDue
  /\ setDesktopPageSize(JsNum(desktopPageSizeLimit[1] * Scale))

\* updateSize and the ResizeObserver callback: the grid's viewport measures
\* width by height.
Resize(width, height) ==
  /\ viewportSize' = [width |-> width, height |-> height]
  /\ UNCHANGED <<formName, isFetchingTitle, metadataRequestIdRef, titleLookups, controller>>


\* openContextMenu without the return for the hidden-group tile.
openContextMenuAnyRecord(app, source, position) ==
  /\ hydration = "ready"
  /\ Commit(settings, userData, baseCatalog, FALSE, searchTerm, currentPage, activeIndex,
            [appId |-> JsStr(app.id), source |-> JsStr(source), position |-> position])
  /\ result' = NoResult
  /\ UNCHANGED <<hydration, isLoading, error, modals, editingAppId, isMobileLayout, components,
                 storedSettings, storedUserData, fetchState>>

\* app: a record the grid or the hidden-apps list shows.
openContextMenu(app, source, position) ==
  /\ hydration = "ready"
  /\ IF IsHiddenGroup(app)
       THEN UNCHANGED <<settings, userData, baseCatalog, catalogApps, searchTerm,
                        currentPage, activeIndex, contextMenu>>
       ELSE Commit(settings, userData, baseCatalog, FALSE, searchTerm, currentPage,
                   activeIndex,
                   [appId |-> JsStr(app.id), source |-> JsStr(source), position |-> position])
  /\ result' = NoResult
  /\ UNCHANGED <<hydration, isLoading, error, modals, editingAppId, isMobileLayout, components,
                 storedSettings, storedUserData, fetchState>>

closeContextMenu ==
  /\ hydration = "ready"
  /\ Commit(settings, userData, baseCatalog, FALSE, searchTerm, currentPage, activeIndex,
            initialContextMenu)
  /\ result' = NoResult
  /\ UNCHANGED <<hydration, isLoading, error, modals, editingAppId, isMobileLayout, components,
                 storedSettings, storedUserData, fetchState>>


\* ------------------------------------------------------------------ settings

\* closeSettings without saveSettingsToStorage.
closeSettingsNoSave(markCompleted) ==
  /\ hydration = "ready"
  /\ modals' = [modals EXCEPT !.settings = FALSE]
  /\ Commit(IF markCompleted THEN [settings EXCEPT !.hasCompletedSetup = JsBool(TRUE)]
            ELSE settings,
            userData, baseCatalog, FALSE, searchTerm, currentPage, activeIndex, contextMenu)
  /\ result' = NoResult
  /\ UNCHANGED <<hydration, isLoading, error, editingAppId, isMobileLayout, components,
                 storedSettings, storedUserData, fetchState>>

closeSettings(markCompleted) ==
  /\ hydration = "ready"
  /\ modals' = [modals EXCEPT !.settings = FALSE]
  /\ LET next == [settings EXCEPT !.hasCompletedSetup = JsBool(TRUE)]
     IN IF markCompleted
          THEN /\ storedSettings' = <<next>>
               /\ Commit(next, userData, baseCatalog, FALSE,
                         searchTerm, currentPage, activeIndex, contextMenu)
          ELSE /\ UNCHANGED storedSettings
               /\ Commit(settings, userData, baseCatalog, FALSE,
                         searchTerm, currentPage, activeIndex, contextMenu)
  /\ result' = NoResult
  /\ UNCHANGED <<hydration, isLoading, error, editingAppId, isMobileLayout, components,
                 storedUserData, fetchState>>

\* input: the SettingsFormInput, each field an untyped value.
SubmittedSettings(input) ==
  LET backgroundImage ==
        IF input.backgroundImageChoice = JsStr(StrCustom)
          THEN Coalesce(input.backgroundImageCustom, JsStr(<<>>))
          ELSE input.backgroundImageChoice
  IN updateSettingsFromForm(settings,
       JsObj([backgroundType |-> input.backgroundType,
              backgroundImage |-> backgroundImage,
              backgroundColor |-> input.backgroundColor,
              overlayOpacity |-> input.overlayOpacity,
              blurStrength |-> input.blurStrength,
              glassTintColor |-> input.glassTintColor,
              glassTintOpacity |-> input.glassTintOpacity,
              hasCompletedSetup |-> JsBool(TRUE),
              hideDefaultApps |-> input.hideDefaultApps,
              mobileLayout |-> input.mobileLayout]))

\* submitSettings, with the closeSettings({ markCompleted: true }) it ends in.
submitSettings(input) ==
  /\ hydration = "ready"
  /\ LET nextSettings == SubmittedSettings(input)
         completed == [nextSettings EXCEPT !.hasCompletedSetup = JsBool(TRUE)]
         nextUserData == [userData EXCEPT !.pageSize = normalizePageSize(input.pageSize)]
     IN /\ storedSettings' = <<completed>>
        /\ storedUserData' = Persisted(nextUserData)
        /\ Commit(completed, nextUserData, baseCatalog, FALSE,
                  searchTerm, 0, activeIndex, contextMenu)
  /\ modals' = [modals EXCEPT !.settings = FALSE]
  /\ result' = NoResult
  /\ UNCHANGED <<hydration, isLoading, error, editingAppId, isMobileLayout, components, fetchState>>

\* --------------------------------------------------------------- importBackup

\* { ...defaultSettings, ...incomingSettings }: the keys of an array are its
\* indices, none of them a settings key.
OverlayOnDefaults(incoming) ==
  LET defaults == SettingsToJson(defaultSettings).f
      given == IF incoming.k = "obj" THEN incoming.f ELSE defaults
  IN JsObj([key \in DOMAIN defaults \cup DOMAIN given |->
              IF key \in DOMAIN given THEN given[key] ELSE defaults[key]])

ImportedSettings(rawSettings) ==
  LET sanitized == updateSettingsFromForm(defaultSettings, OverlayOnDefaults(rawSettings))
      incomingFlag == Get(rawSettings, "hasCompletedSetup")
  IN [sanitized EXCEPT !.hasCompletedSetup =
        IF IsBoolean(incomingFlag) THEN incomingFlag
        ELSE Coalesce(settings.hasCompletedSetup, sanitized.hasCompletedSetup)]

ImportedCustomApps(list) == SanitizeAll(list.a, StrCustom)

\* The hidden ids of an import without new Set(...).
ImportedHiddenIdsNoSet(list) ==
  SelectSeq([i \in 1..Len(list.a) |->
               IF IsString(list.a[i]) THEN Trim(list.a[i].s) ELSE <<>>],
            LAMBDA id : id # <<>>)

ImportedHiddenIds(list) ==
  Dedupe(SelectSeq([i \in 1..Len(list.a) |->
                      IF IsString(list.a[i]) THEN Trim(list.a[i].s) ELSE <<>>],
                   LAMBDA id : id # <<>>))

\* The object importBackup hands to mergeUserData: only the keys it found.
ImportedPartial(rawUserData) ==
  LET hasHidden == IsArray(Get(rawUserData, "hiddenAppIds"))
      hasCustom == IsArray(Get(rawUserData, "customApps"))
      hasPageSize == Get(rawUserData, "pageSize").k # "undefined"
      keys == (IF hasHidden THEN {"hiddenAppIds"} ELSE {})
              \cup (IF hasCustom THEN {"customApps"} ELSE {})
              \cup (IF hasPageSize THEN {"pageSize"} ELSE {})
  IN [key \in keys |->
        CASE key = "hiddenAppIds" -> ImportedHiddenIds(Get(rawUserData, "hiddenAppIds"))
          [] key = "customApps" -> ImportedCustomApps(Get(rawUserData, "customApps"))
          [] OTHER -> Get(rawUserData, "pageSize")]

ImportedUserData(rawUserData) == mergeUserData(defaultUserData, ImportedPartial(rawUserData))

\* Whether the import puts a new array in userData.customApps: the sanitized
\* list, or defaultUserData's own (empty) array where another one was.
ImportReplacesCustomApps(rawUserData) ==
  IsArray(Get(rawUserData, "customApps")) \/ userData.customApps # <<>>

\* importBackup with its first check only.
ImportRejectionOnlyInvalid(data) ==
  IF IsFalsy(data) \/ ~IsTruthyObject(data) THEN "The backup file is invalid." ELSE ""

\* The message of a rejected import, or "" when something is applied.
ImportRejection(data) ==
  LET rawSettings == Get(data, "settings")
      rawUserData == Get(data, "userData")
  IN IF IsFalsy(data) \/ ~IsTruthyObject(data) THEN "The backup file is invalid."
     ELSE IF IsFalsy(rawSettings) /\ IsFalsy(rawUserData)
       THEN "The backup file is missing required data."
     ELSE IF ~IsTruthyObject(rawSettings) /\ ~IsTruthyObject(rawUserData)
       THEN "No changes were applied from the backup file."
     ELSE ""

ImportApply(rawUserData, settingsUpdated, userDataUpdated, nextSettings, nextUserData) ==
  /\ storedSettings' = IF settingsUpdated THEN <<nextSettings>> ELSE storedSettings
  /\ storedUserData' = IF userDataUpdated THEN Persisted(nextUserData) ELSE storedUserData
  /\ Len(nextUserData.customApps) <= MaxImported
  /\ Commit(nextSettings, nextUserData, baseCatalog,
            userDataUpdated /\ ImportReplacesCustomApps(rawUserData), searchTerm,
            IF userDataUpdated THEN 0 ELSE currentPage,
            IF userDataUpdated THEN -1 ELSE activeIndex,
            contextMenu)
  /\ result' =
       Returned("importBackup", TRUE,
                IF settingsUpdated /\ userDataUpdated
                  THEN "Imported settings and app data successfully."
                ELSE IF settingsUpdated THEN "Imported settings successfully."
                ELSE "Imported app data successfully.")

ImportSections(rawSettings, rawUserData) ==
  ImportApply(rawUserData, IsTruthyObject(rawSettings), IsTruthyObject(rawUserData),
              IF IsTruthyObject(rawSettings) THEN ImportedSettings(rawSettings) ELSE settings,
              IF IsTruthyObject(rawUserData) THEN ImportedUserData(rawUserData) ELSE userData)

ImportOutcome(data, rejection) ==
  IF rejection # ""
    THEN /\ result' = Returned("importBackup", FALSE, rejection)
         /\ UNCHANGED <<settings, userData, baseCatalog, catalogApps, searchTerm,
                        currentPage, activeIndex, contextMenu, storedSettings,
                        storedUserData>>
    ELSE ImportSections(Get(data, "settings"), Get(data, "userData"))

importBackup(data) ==
  /\ hydration = "ready"
  /\ ImportOutcome(data, ImportRejection(data))
  /\ UNCHANGED <<hydration, isLoading, error, modals, editingAppId, isMobileLayout, components,
                 fetchState>>

\* exportBackup followed, with no change in between, by importBackup of the
\* file it wrote.
importOwnExport == importBackup(exportPayload(settings, userData))


\* ---------------------------------------------------------------- navigation

UnchangedByNavigation ==
  UNCHANGED <<hydration, isLoading, error, modals, editingAppId, isMobileLayout, components,
              storedSettings, storedUserData, fetchState>>

setSearchTerm(term) ==
  /\ hydration = "ready"
  /\ Commit(settings, userData, baseCatalog, FALSE, term, 0, activeIndex, contextMenu)
  /\ result' = NoResult
  /\ UnchangedByNavigation

setPage(page) ==
  /\ hydration = "ready"
  /\ Commit(settings, userData, baseCatalog, FALSE, searchTerm,
            IF isMobileLayout THEN 0 ELSE Min(Max(page, 0), totalPages - 1),
            activeIndex, contextMenu)
  /\ result' = NoResult
  /\ UnchangedByNavigation

PageOfIndex(index) == index \div (desktopPageSize \div Scale)

setActiveIndex(index) ==
  /\ hydration = "ready"
  /\ LET clamped == Min(Max(index, 0), Len(filteredApps) - 1)
     IN IF Len(filteredApps) = 0
          THEN Commit(settings, userData, baseCatalog, FALSE, searchTerm,
                      currentPage, -1, contextMenu)
          ELSE Commit(settings, userData, baseCatalog, FALSE, searchTerm,
                      IF isMobileLayout THEN currentPage ELSE PageOfIndex(clamped),
                      clamped, contextMenu)
  /\ result' = NoResult
  /\ UnchangedByNavigation

\* The index advanceActiveIndex moves to from previous, over count > 0 records.
AdvancedIndex(previous, delta, count) ==
  IF previous = -1 THEN (IF delta > 0 THEN 0 ELSE count - 1)
  ELSE JsRem(previous + delta + count, count)

advanceActiveIndex(delta) ==
  /\ hydration = "ready"
  /\ LET next == AdvancedIndex(activeIndex, delta, Len(filteredApps))
     IN IF Len(filteredApps) = 0
          THEN Commit(settings, userData, baseCatalog, FALSE, searchTerm,
                      currentPage, activeIndex, contextMenu)
          ELSE Commit(settings, userData, baseCatalog, FALSE, searchTerm,
                      IF isMobileLayout THEN currentPage
                      ELSE PageOfIndex(next),
                      next, contextMenu)
  /\ result' = NoResult
  /\ UnchangedByNavigation

resetActiveIndex ==
  /\ hydration = "ready"
  /\ Commit(settings, userData, baseCatalog, FALSE, searchTerm, currentPage, -1, contextMenu)
  /\ result' = NoResult
  /\ UnchangedByNavigation

\* The hook is rendered with another isMobileLayout argument: totalPages is
\* computed again and the page-clamp effect runs.
SwitchLayout(mobile) ==
  /\ mobile # isMobileLayout
  /\ isMobileLayout' = mobile
  /\ currentPage' =
       IF mobile THEN 0
       ELSE IF currentPage >= getTotalPages(filteredApps, mobile, userData.pageSize)
         THEN Max(getTotalPages(filteredApps, mobile, userData.pageSize) - 1, 0)
       ELSE currentPage
  /\ result' = NoResult
  /\ UNCHANGED <<hydration, settings, userData, baseCatalog, catalogApps, searchTerm,
                 activeIndex, isLoading, error, modals, contextMenu, editingAppId,
                 storedSettings, storedUserData, fetchState, components>>


\* ------------------------------------------------------------------- inputs

NameDocs == <<"D","o","c","s">>
NameBang == <<"!","!">>
NameBlank == <<" ">>
UrlPlain == <<"e",".","c","o">>
UrlScript == StrJavascript \o <<"x">>
IdAppDocs == StrApp \o <<"-","d","o","c","s">>
IdAppDocs2 == IdAppDocs \o <<"-","2">>
IdStale == <<"z">>
IdCustomDocs == StrCustom \o <<"-","d","o","c","s">>

\* Raw catalog entries, as fetched.
RawDocs == JsObj([name |-> JsStr(NameDocs), url |-> JsStr(UrlPlain)])

\* Raw custom apps of a backup file.
RawCustomBang == JsObj([name |-> JsStr(NameBang), url |-> JsStr(UrlPlain)])
RawCustomDocs ==
  JsObj([id |-> JsStr(IdAppDocs), name |-> JsStr(NameDocs), url |-> JsStr(UrlPlain),
         tags |-> JsArr(<<JsStr(<<" ", "a">>), JsStr(<<>>)>>)])
RawCustomNoUrl == JsObj([id |-> JsStr(IdStale), name |-> JsStr(NameDocs)])

Catalogs == { <<RawDocs>> }

\* What the add/edit form submits; id is undefined or the id of the custom app
\* being edited.
CustomAppInputs ==
  [id : {JsUndefined} \cup { JsStr(a.id) : a \in { x \in Range(catalogApps) : x.origin = StrCustom } },
   name : {JsStr(NameDocs), JsStr(NameBlank)},
   url : {JsStr(UrlPlain)},
   description : {JsUndefined},
   tagsInput : {JsStr(<<"a", ",", " ">>)},
   iconChoice : {JsStr(DEFAULT_ICON)},
   iconCustom : {JsUndefined}]
  \cup
  { [id |-> JsUndefined, name |-> JsStr(NameDocs), url |-> JsStr(UrlScript),
     description |-> JsUndefined, tagsInput |-> JsUndefined,
     iconChoice |-> JsStr(StrCustom), iconCustom |-> JsUndefined] }

\* Ids the grid and the hidden-apps list can pass to hideApp and showApp.
ShownIds == IdsOf(catalogApps) \cup Range(userData.hiddenAppIds)

\* The first app of the grid, if any.
FirstShownId == IF catalogApps = <<>> THEN {} ELSE {catalogApps[1].id}

FormDefaults ==
  [backgroundType |-> JsStr(StrImage),
   backgroundImageChoice |-> JsStr(<<"/", "b">>),
   backgroundImageCustom |-> JsUndefined,
   backgroundColor |-> JsStr(<<"#","0","f","1","7","2","a">>),
   overlayOpacity |-> JsNum(35),
   blurStrength |-> JsNum(8 * Scale),
   glassTintColor |-> JsStr(<<"#","0","f","1","7","2","a">>),
   glassTintOpacity |-> JsNum(40),
   pageSize |-> JsNum(DEFAULT_PAGE_SIZE * Scale),
   hideDefaultApps |-> JsBool(FALSE),
   mobileLayout |-> JsStr(StrGrid)]

\* The settings form as the main specification submits it: the defaults with
\* the catalog shown or hidden and one of two page sizes.
SettingsInputs ==
  { FormDefaults,
    [FormDefaults EXCEPT !.hideDefaultApps = JsBool(TRUE), !.pageSize = JsNum(17 * Scale)] }

\* An object with the keys whose value is not undefined.
ObjectOf(f) == JsObj([key \in { x \in DOMAIN f : f[x].k # "undefined" } |-> f[key]])

HiddenPart == JsArr(<<JsStr(IdStale), JsStr(<<" ">> \o IdAppDocs), JsStr(IdAppDocs)>>)

\* Parsed backup files: an unusable one, one with a settings section and one
\* with a userData section.
BackupFiles ==
  { JsNull,
    ObjectOf([settings |-> JsObj([hideDefaultApps |-> JsBool(TRUE),
                                  hasCompletedSetup |-> JsStr(<<"y">>)])]),
    ObjectOf([userData |-> JsObj([hiddenAppIds |-> JsArr(<<JsStr(IdStale)>>),
                                  customApps |-> JsArr(<<RawCustomBang>>)])]) }

\* ------------------------------------------------------------ specification

Next ==
  \/ Hydrate
  \/ \E raws \in Catalogs : FetchSucceed(raws)
  \/ FetchFail
  \/ \E id \in ShownIds : hideApp(id)
  \/ \E id \in ShownIds : showApp(id)
  \/ \E id \in IdsOf(catalogApps) : removeCustomApp(id)
  \/ \E input \in CustomAppInputs : submitCustomApp(input)
  \/ \E input \in SettingsInputs : submitSettings(input)
  \/ \E data \in BackupFiles : importBackup(data)
  \/ importOwnExport

Spec == Init /\ [][Next]_vars

\* ------------------------------------------------- the merged collection alone

MaxApps == 3

\* A record as the sanitizer leaves it.
StoredApp(id, name, origin) ==
  [id |-> id, name |-> name, description |-> <<>>, url |-> StrHttps \o <<"/", "/">> \o UrlPlain \o <<"/">>,
   icon |-> DEFAULT_ICON, tags |-> <<>>, origin |-> origin]

\* Catalog records: without id, and with an id that is the suffixed id of
\* another record.
CatalogRecords ==
  { StoredApp(<<>>, NameDocs, StrCatalog),
    StoredApp(IdAppDocs2, NameDocs, StrCatalog) }

\* Custom records: without id and without a slug in the name, and with ids
\* other records derive from their name or from the clock.
CustomRecords ==
  { StoredApp(<<>>, NameBang, StrCustom),
    StoredApp(IdAppDocs, NameDocs, StrCustom),
    StoredApp(StrCustom \o <<"-", "0">>, NameDocs, StrCustom) }

SeqsUpTo(S, n) == UNION { [1..k -> S] : k \in 0..n }

\* Date.now() over one pass: one value per record, never decreasing.
TimeSeqs(n) ==
  { t \in [1..n -> 0..MaxClock] : \A i \in 1..n, j \in 1..n : i <= j => t[i] <= t[j] }

\* A hydrated session whose catalog and stored custom apps are any short lists.
InitIds ==
  /\ hydration = "ready"
  /\ settings = defaultSettings
  /\ baseCatalog \in SeqsUpTo(CatalogRecords, MaxApps)
  /\ \E custom \in SeqsUpTo(CustomRecords, MaxApps - Len(baseCatalog)) :
       userData = [defaultUserData EXCEPT !.customApps = custom]
  /\ catalogApps \in
       { MergedCollection(baseCatalog, userData.customApps, FALSE, t) :
           t \in TimeSeqs(Len(baseCatalog) + Len(userData.customApps)) }
  /\ searchTerm = <<>>
  /\ currentPage = 0
  /\ activeIndex = -1
  /\ isLoading = FALSE
  /\ error = <<>>
  /\ modals = [settings |-> FALSE, addApp |-> FALSE, hiddenApps |-> FALSE]
  /\ contextMenu = initialContextMenu
  /\ editingAppId = JsNull
  /\ isMobileLayout = FALSE
  /\ ComponentsMounted
  /\ storedSettings = <<>>
  /\ storedUserData = <<>>
  /\ fetchState = <<>>
  /\ result = NoResult

\* The catalogApps memo run again on arrays of the same content; result keeps
\* the call of ensureUniqueAppIds it made.
RecomputeCatalogApps(times) ==
  /\ catalogApps' =
       MergedCollection(baseCatalog, userData.customApps, settings.hideDefaultApps, times)
  /\ result' =
       [op |-> "ensureUniqueAppIds",
        apps |-> (IF settings.hideDefaultApps THEN <<>> ELSE baseCatalog) \o userData.customApps,
        times |-> times,
        value |-> ensureUniqueAppIds(
                    (IF settings.hideDefaultApps THEN <<>> ELSE baseCatalog)
                      \o userData.customApps, times)]
  /\ UNCHANGED <<hydration, settings, userData, baseCatalog, searchTerm, currentPage,
                 activeIndex, isLoading, error, modals, contextMenu, editingAppId,
                 isMobileLayout, components, storedSettings, storedUserData, fetchState>>

NextIds ==
  \E times \in TimeSeqs(Len(baseCatalog) + Len(userData.customApps)) :
    RecomputeCatalogApps(times)

SpecIds == InitIds /\ [][NextIds]_vars

IdSeq(apps) == [i \in 1..Len(apps) |-> apps[i].id]

UniqueIds(apps) ==
  \A i \in 1..Len(apps), j \in 1..Len(apps) : i # j => apps[i].id # apps[j].id

\* C1: the merged collection never holds two records with the same id, and
\* every call of ensureUniqueAppIds returns records whose ids all differ.
C1_UniqueIds ==
  /\ UniqueIds(catalogApps)
  /\ result.op = "ensureUniqueAppIds" => UniqueIds(result.value)

\* An id-less record after a record whose supplied id is the suffixed id the
\* id-less one would take, and after a record with the same derived id.
C1_Witness ==
  /\ result.op = "ensureUniqueAppIds"
  /\ IdSeq(result.apps) = <<IdAppDocs2, <<>>, <<>>>>
  /\ IdSeq(result.value) = <<IdAppDocs2, IdAppDocs, IdAppDocs \o <<"-", "3">>>>
  /\ Len(catalogApps) = 3

Suffixed(baseId, n) == baseId \o <<"-">> \o ToRadix(n, 10)

\* The id rule of the claim for record i of a call: the base id when no earlier
\* record of the output has it, else base-n for the least n >= 2 no earlier
\* record has.
FollowsInputOrder(apps, times, value, i) ==
  LET base == BaseIdOf(apps[i], times[i])
      earlier == { value[j].id : j \in 1..(i - 1) }
  IN /\ value[i] = [apps[i] EXCEPT !.id = value[i].id]
     /\ IF base \notin earlier THEN value[i].id = base
        ELSE \E n \in 2..(Len(apps) + 1) :
               /\ value[i].id = Suffixed(base, n)
               /\ Suffixed(base, n) \notin earlier
               /\ \A m \in 2..(n - 1) : Suffixed(base, m) \in earlier

\* C7: every call of ensureUniqueAppIds resolves collisions in input order
\* (base id if free among the earlier records, else base-n for the smallest
\* free n >= 2), and two id-less catalog records named Docs get app-docs and
\* app-docs-2.
C7_InputOrder ==
  result.op = "ensureUniqueAppIds" =>
    /\ Len(result.value) = Len(result.apps)
    /\ \A i \in 1..Len(result.apps) :
         FollowsInputOrder(result.apps, result.times, result.value, i)
    /\ result.apps = <<StoredApp(<<>>, NameDocs, StrCatalog), StoredApp(<<>>, NameDocs, StrCatalog)>>
         => IdSeq(result.value) = <<IdAppDocs, IdAppDocs2>>

\* Docs, Docs and a third record whose supplied id is app-docs: ids app-docs,
\* app-docs-2, app-docs-3.
C7_Witness ==
  /\ result.op = "ensureUniqueAppIds"
  /\ result.apps = <<StoredApp(<<>>, NameDocs, StrCatalog), StoredApp(<<>>, NameDocs, StrCatalog),
                     StoredApp(IdAppDocs, NameDocs, StrCustom)>>
  /\ IdSeq(result.value) = <<IdAppDocs, IdAppDocs2, Suffixed(IdAppDocs, 3)>>

\* C6: a step that leaves baseCatalog, customApps and hideDefaultApps as they
\* were computes the merged collection it had: same records, ids and order.
C6_Deterministic ==
  [][(/\ baseCatalog' = baseCatalog
      /\ userData'.customApps = userData.customApps
      /\ settings'.hideDefaultApps = settings.hideDefaultApps)
       => catalogApps' = catalogApps]_vars

\* C2: every id in userData.hiddenAppIds is the id of a record of the merged
\* collection.
C2_HiddenIdsInCollection == Range(userData.hiddenAppIds) \subseteq IdsOf(catalogApps)

\* ------------------------------------------------------------- backups alone

\* A hydrated session whose catalog fetch has settled.
InitImport ==
  /\ hydration = "ready"
  /\ settings = defaultSettings
  /\ userData = defaultUserData
  /\ baseCatalog = fetchCatalogApps(<<RawDocs>>)
  /\ catalogApps = MergedCollection(baseCatalog, <<>>, FALSE, <<0>>)
  /\ searchTerm = <<>>
  /\ currentPage = 0
  /\ activeIndex = -1
  /\ isLoading = FALSE
  /\ error = <<>>
  /\ modals = [settings |-> FALSE, addApp |-> FALSE, hiddenApps |-> FALSE]
  /\ contextMenu = initialContextMenu
  /\ editingAppId = JsNull
  /\ isMobileLayout = FALSE
  /\ ComponentsMounted
  /\ storedSettings = <<>>
  /\ storedUserData = <<>>
  /\ fetchState = <<>>
  /\ result = NoResult

\* A form that changes every setting, with values the reconciler rewrites.
FormChanged ==
  [backgroundType |-> JsStr(StrColor),
   backgroundImageChoice |-> JsStr(StrCustom),
   backgroundImageCustom |-> JsStr(<<" ", "/", "c">>),
   backgroundColor |-> JsStr(<<"#", "A", "B", "C">>),
   overlayOpacity |-> JsNum(5 * Scale),
   blurStrength |-> JsStr(<<"3", "p", "x">>),
   glassTintColor |-> JsStr(<<"r", "e", "d">>),
   glassTintOpacity |-> JsNum(0),
   pageSize |-> JsNum(17 * Scale),
   hideDefaultApps |-> JsBool(FALSE),
   mobileLayout |-> JsStr(StrList)]

NewDocsApp ==
  [id |-> JsUndefined, name |-> JsStr(NameDocs), url |-> JsStr(UrlPlain),
   description |-> JsStr(<<"d", " ">>), tagsInput |-> JsStr(<<"a", ",", " ">>),
   iconChoice |-> JsStr(DEFAULT_ICON), iconCustom |-> JsUndefined]

\* Parsed backup files: unusable ones, partial ones that name one section or
\* one field, and full ones.
AllBackupFiles ==
  { JsNull,
    JsArr(<<>>),
    ObjectOf([settings |-> JsStr(<<"x">>), userData |-> JsNum(Scale)]),
    ObjectOf([settings |-> JsObj([overlayOpacity |-> JsNum(5 * Scale),
                                  hideDefaultApps |-> JsBool(TRUE),
                                  hasCompletedSetup |-> JsStr(<<"y">>)])]),
    ObjectOf([userData |-> JsObj([pageSize |-> JsNum(999 * Scale)])]),
    ObjectOf([userData |-> JsObj([hiddenAppIds |-> HiddenPart])]),
    ObjectOf([userData |-> JsObj([customApps |-> JsArr(<<RawCustomBang>>)])]),
    ObjectOf([settings |-> JsObj([mobileLayout |-> JsStr(StrList)]),
              userData |-> JsObj([customApps |-> JsArr(<<RawCustomDocs, RawCustomNoUrl, JsNull>>),
                                  hiddenAppIds |-> HiddenPart,
                                  pageSize |-> JsNum(21 * Scale)])]) }

NextImport ==
  \/ submitCustomApp(NewDocsApp)
  \/ submitSettings(FormChanged)
  \/ \E data \in AllBackupFiles : importBackup(data)
  \/ importOwnExport

SpecImport == InitImport /\ [][NextImport]_vars

\* The fields a backup's userData section leaves out.
Omits(data, field) == Get(Get(data, "userData"), field).k = "undefined"

\* C3: an import whose userData section is an object keeps, for each of
\* customApps, hiddenAppIds and pageSize the section omits, the value userData
\* had before.
C3_PartialImportKeeps ==
  [][\A data \in AllBackupFiles :
       (IsTruthyObject(Get(data, "userData")) /\ importBackup(data)) =>
         /\ Omits(data, "customApps") => userData'.customApps = userData.customApps
         /\ Omits(data, "hiddenAppIds") => userData'.hiddenAppIds = userData.hiddenAppIds
         /\ Omits(data, "pageSize") => userData'.pageSize = userData.pageSize]_vars

\* C4: importing the payload exportBackup has just built leaves settings and
\* userData as they were.
C4_RoundTrip == [][importOwnExport => settings' = settings /\ userData' = userData]_vars

\* A round trip made with changed settings, a custom app and hidden ids; the
\* import that closed it succeeded.
C4_Witness ==
  /\ result = Returned("importBackup", TRUE, "Imported settings and app data successfully.")
  /\ settings.backgroundType = StrColor
  /\ settings.overlayOpacity = 60
  /\ Len(userData.customApps) = 1
  /\ userData.customApps[1].tags = <<<<"a">>>>
  /\ userData.hiddenAppIds = <<IdStale, IdAppDocs>>
  /\ userData.pageSize = 14 * Scale
  /\ storedUserData = <<userData>>

\* A value importBackup has nothing to take from: not an object, or an object
\* neither of whose sections is one.
NothingToImport(data) ==
  \/ data.k \notin {"obj", "arr"}
  \/ /\ Get(data, "settings").k \notin {"obj", "arr"}
     /\ Get(data, "userData").k \notin {"obj", "arr"}

\* C5: importBackup returns success=false for a value that is not an object
\* and for one neither of whose sections is an object, and a call that returns
\* success=false leaves settings, userData, both stores, currentPage and
\* activeIndex as they were.
C5_RejectedImport ==
  [][/\ \A data \in AllBackupFiles :
          (NothingToImport(data) /\ importBackup(data)) => ~result'.success
     /\ (result'.op = "importBackup" /\ ~result'.success) =>
          UNCHANGED <<settings, userData, storedSettings, storedUserData, currentPage,
                      activeIndex>>]_vars

\* After changes were made and saved, an import was rejected because neither
\* section is an object.
C5_Witness ==
  /\ result = Returned("importBackup", FALSE, "No changes were applied from the backup file.")
  /\ settings # defaultSettings
  /\ userData.customApps # <<>>
  /\ storedSettings = <<settings>>
  /\ storedUserData = <<userData>>

\* ------------------------------------------- settings and page size alone

\* What a numeric field of a form or of a backup may hold.
NumberInputs ==
  { JsNum(-5 * Scale), JsNum(0), JsNum(3), JsNum(35), JsNum(61), JsNum(96), JsNum(21 * Scale),
    JsStr(<<"0", ".", "3", "x">>), JsStr(<<" ", "-", "1">>), JsStr(<<"a", "b", "c">>),
    JsStr(<<>>), JsUndefined, JsNull, JsNaN, JsInfinity, JsBool(TRUE),
    JsArr(<<JsNum(7 * Scale)>>) }

\* What a color field may hold.
ColorInputs ==
  { JsStr(<<"#", "A", "B", "C">>), JsStr(<<" ", "#", "a", "b", "c", "d", "e", "f", " ">>),
    JsStr(<<"r", "e", "d">>), JsStr(<<"1", "2", "3", "4", "5", "g">>),
    JsStr(<<"-", "1", "2", "3", "4", "5">>), JsStr(<<"0", "x", "1", "2", "3", "4">>),
    JsStr(<<"#">>), JsStr(<<>>), JsUndefined, JsNull, JsNum(Scale) }

ChoiceInputs ==
  { JsStr(StrColor), JsStr(StrImage), JsStr(StrList), JsStr(StrGrid), JsStr(<<"x">>),
    JsUndefined, JsNull, JsBool(TRUE), JsNum(0) }

\* Page sizes: below, inside and above the range, on and beside the midpoints
\* between two steps, and values that are not numbers.
PageSizeInputs ==
  { JsNum(-Scale), JsNum(0), JsNum(14 * Scale), JsNum(1749), JsNum(1750), JsNum(2449),
    JsNum(2450), JsNum(28 * Scale), JsNum(5249), JsNum(57 * Scale), JsNum(999 * Scale),
    JsStr(<<"2", "1", "p", "x">>), JsStr(<<"a">>), JsUndefined, JsNull, JsNaN, JsInfinity }

\* Forms that differ from the defaults in one field.
SettingsForms ==
  { [FormDefaults EXCEPT ![f] = v] :
      f \in {"overlayOpacity", "blurStrength", "glassTintOpacity"}, v \in NumberInputs }
  \cup { [FormDefaults EXCEPT ![f] = v] :
           f \in {"backgroundColor", "glassTintColor"}, v \in ColorInputs }
  \cup { [FormDefaults EXCEPT ![f] = v] :
           f \in {"backgroundType", "mobileLayout", "hideDefaultApps"}, v \in ChoiceInputs }
  \cup { [FormDefaults EXCEPT !.pageSize = v] : v \in PageSizeInputs }

\* Backups whose settings section holds one field, or whose userData section
\* holds a page size.
SettingsBackups ==
  { ObjectOf([settings |-> JsObj([overlayOpacity |-> v])]) : v \in NumberInputs }
  \cup { ObjectOf([settings |-> JsObj([glassTintColor |-> v])]) : v \in ColorInputs }
  \cup { ObjectOf([settings |-> JsObj([mobileLayout |-> v, hideDefaultApps |-> v])]) :
           v \in ChoiceInputs }
  \cup { ObjectOf([userData |-> JsObj([pageSize |-> v])]) : v \in PageSizeInputs }

NextSettings ==
  \/ \E input \in SettingsForms : submitSettings(input)
  \/ \E data \in SettingsBackups : importBackup(data)
  \/ \E size \in PageSizeInputs : setDesktopPageSize(size)

SpecSettings == InitImport /\ [][NextSettings]_vars

IsSixHex(color) ==
  /\ Len(color) = 7
  /\ color[1] = "#"
  /\ \A i \in 2..7 : color[i] \in Range(SubSeq(Base36Chars, 1, 16))

\* C8: settings always has its three numbers inside their ranges, its two
\* choices among their values, a boolean hideDefaultApps and both colors in
\* six-hex-digit form.
C8_SettingsInBounds ==
  /\ settings.overlayOpacity \in 0..60
  /\ settings.blurStrength \in 0..(20 * Scale)
  /\ settings.glassTintOpacity \in 5..95
  /\ settings.backgroundType \in {StrImage, StrColor}
  /\ settings.mobileLayout \in {StrGrid, StrList}
  /\ settings.hideDefaultApps \in BOOLEAN
  /\ IsSixHex(settings.backgroundColor)
  /\ IsSixHex(settings.glassTintColor)

\* A color written as a signed hexadecimal number was stored in six-hex-digit
\* form.
C8_Witness ==
  /\ storedSettings = <<settings>>
  /\ settings.glassTintColor = <<"#", "f", "e", "d", "c", "b", "b">>

\* The multiples of the step inside the range, as numbers.
PageSizeSteps ==
  { n * Scale : n \in { m \in MIN_PAGE_SIZE..MAX_PAGE_SIZE : m % PAGE_SIZE_STEP = 0 } }

Distance(a, b) == IF a >= b THEN a - b ELSE b - a

\* out is what the claim asks of normalizePageSize for the input size: the
\* default when size is no finite number, else a step no other step is nearer
\* to the clamped input than.
IsNearestStep(size, out) ==
  LET numeric == ParseFloatOf(size)
      clamped == Min(Max(numeric.n, MIN_PAGE_SIZE * Scale), MAX_PAGE_SIZE * Scale)
  IN IF ~numeric.finite THEN out = DEFAULT_PAGE_SIZE * Scale
     ELSE /\ out \in PageSizeSteps
          /\ \A other \in PageSizeSteps : Distance(out, clamped) <= Distance(other, clamped)

\* C9: userData.pageSize is always a multiple of the step inside the range,
\* and for every input normalizePageSize returns the step nearest to the
\* clamped input, or the default page size when the input is no finite number.
C9_PageSizeOnStep ==
  /\ userData.pageSize \in PageSizeSteps
  /\ \A size \in PageSizeInputs : IsNearestStep(size, normalizePageSize(size))

\* An import whose page size lies above the range stored the largest step.
C9_Witness ==
  /\ result = Returned("importBackup", TRUE, "Imported app data successfully.")
  /\ userData.pageSize = MAX_PAGE_SIZE * Scale
  /\ storedUserData = <<userData>>

\* ---------------------------------------------------------- navigation alone

MaxDelta == 4

NameMail == <<"M","a","i","l">>
NameMaps == <<"M","a","p","s">>
RawMail == JsObj([name |-> JsStr(NameMail), url |-> JsStr(UrlPlain)])
RawMaps == JsObj([name |-> JsStr(NameMaps), url |-> JsStr(UrlPlain)])

\* A hydrated session whose catalog fetch has settled with three apps.
InitNav ==
  /\ hydration = "ready"
  /\ settings = defaultSettings
  /\ userData = defaultUserData
  /\ baseCatalog = fetchCatalogApps(<<RawDocs, RawMail, RawMaps>>)
  /\ catalogApps = MergedCollection(baseCatalog, <<>>, FALSE, <<0, 0, 0>>)
  /\ searchTerm = <<>>
  /\ currentPage = 0
  /\ activeIndex = -1
  /\ isLoading = FALSE
  /\ error = <<>>
  /\ modals = [settings |-> FALSE, addApp |-> FALSE, hiddenApps |-> FALSE]
  /\ contextMenu = initialContextMenu
  /\ editingAppId = JsNull
  /\ isMobileLayout = FALSE
  /\ ComponentsMounted
  /\ storedSettings = <<>>
  /\ storedUserData = <<>>
  /\ fetchState = <<>>
  /\ result = NoResult

\* Search terms matching three, two, one and none of the apps.
SearchTerms == { <<>>, <<"m", "a">>, <<"D">>, <<"z">> }

Deltas == (0 - MaxDelta)..MaxDelta

NextNav ==
  \/ \E term \in SearchTerms : setSearchTerm(term)
  \/ \E page \in -1..1 : setPage(page)
  \/ \E index \in -1..MaxApps : setActiveIndex(index)
  \/ \E delta \in Deltas : advanceActiveIndex(delta)
  \/ resetActiveIndex
  \/ \E id \in ShownIds : hideApp(id)
  \/ \E mobile \in BOOLEAN : SwitchLayout(mobile)

SpecNav == InitNav /\ [][NextNav]_vars

\* C10: advanceActiveIndex wraps in both directions: over count > 0 records,
\* from an index in 0..count-1 and for every delta the next index is
\* (index + delta) modulo count and lies in 0..count-1; from -1 a forward step
\* selects 0 and a backward step selects count-1; over no records the index is
\* unchanged.
C10_AdvanceWraps ==
  [][\A delta \in Deltas :
       advanceActiveIndex(delta) =>
         LET count == Len(filteredApps)
         IN /\ (count > 0 /\ activeIndex \in 0..(count - 1)) =>
                 /\ activeIndex' = (activeIndex + delta) % count
                 /\ activeIndex' \in 0..(count - 1)
            /\ (count > 0 /\ activeIndex = -1 /\ delta > 0) => activeIndex' = 0
            /\ (count > 0 /\ activeIndex = -1 /\ delta < 0) => activeIndex' = count - 1
            /\ count = 0 => activeIndex' = activeIndex]_vars

\* C11: in every settled state 0 <= currentPage <= totalPages - 1, and
\* currentPage = 0 in mobile layout; a step after which totalPages is below
\* currentPage + 1 leaves the page at totalPages - 1.
C11_PageInRange ==
  /\ [](hydration = "ready" =>
          /\ currentPage \in 0..(totalPages - 1)
          /\ isMobileLayout => currentPage = 0)
  /\ [][totalPages' < currentPage + 1 => currentPage' = totalPages' - 1]_vars

\* --------------------------------------------------------------- pages alone

MaxCount == 29

\* Catalog record number i, with an id and a name of its own.
PageApp(i) == StoredApp(<<"p">> \o ToRadix(i, 10), <<"P">> \o ToRadix(100 + i, 10), StrCatalog)

\* A hydrated session whose catalog fetch has settled with any number of apps.
InitPages ==
  /\ hydration = "ready"
  /\ settings = defaultSettings
  /\ userData = defaultUserData
  /\ \E n \in 0..MaxCount : baseCatalog = [i \in 1..n |-> PageApp(i)]
  /\ catalogApps = MergedCollection(baseCatalog, <<>>, FALSE, [i \in 1..Len(baseCatalog) |-> 0])
  /\ searchTerm = <<>>
  /\ currentPage = 0
  /\ activeIndex = -1
  /\ isLoading = FALSE
  /\ error = <<>>
  /\ modals = [settings |-> FALSE, addApp |-> FALSE, hiddenApps |-> FALSE]
  /\ contextMenu = initialContextMenu
  /\ editingAppId = JsNull
  /\ isMobileLayout = FALSE
  /\ ComponentsMounted
  /\ storedSettings = <<>>
  /\ storedUserData = <<>>
  /\ fetchState = <<>>
  /\ result = NoResult

NextPages ==
  \/ \E size \in {JsNum(MIN_PAGE_SIZE * Scale), JsNum(3 * PAGE_SIZE_STEP * Scale)} :
       setDesktopPageSize(size)
  \/ \E page \in {0, 2} : setPage(page)
  \/ \E id \in FirstShownId : hideApp(id)
  \/ \E mobile \in BOOLEAN : SwitchLayout(mobile)

SpecPages == InitPages /\ [][NextPages]_vars

\* ceil(a / b) for a >= 0 and b >= 1.
CeilDiv(a, b) == CHOOSE k \in 0..a : k * b >= a /\ (k - 1) * b < a

\* C12: totalPages is 1 in mobile layout; in desktop layout, for every count
\* of filteredApps and every page size >= 1, totalPages >= 1 and totalPages is
\* ceil(count / pageSize) when count > 0.
C12_TotalPages ==
  /\ isMobileLayout => totalPages = 1
  /\ ~isMobileLayout =>
       /\ totalPages >= 1
       /\ Len(filteredApps) > 0 =>
            totalPages = CeilDiv(Len(filteredApps), userData.pageSize \div Scale)
  /\ \A count \in 0..Len(catalogApps), size \in 1..MaxCount :
       LET pages == getTotalPages(SubSeq(catalogApps, 1, count), FALSE, size * Scale)
       IN /\ pages >= 1
          /\ count > 0 => pages = CeilDiv(count, size)
          /\ getTotalPages(SubSeq(catalogApps, 1, count), TRUE, size * Scale) = 1

\* Desktop layout, 28 apps and the hidden-group tile at 14 per page: three
\* pages, the last one shown.
C12_Witness ==
  /\ ~isMobileLayout
  /\ userData.hiddenAppIds # <<>>
  /\ Len(filteredApps) = 2 * MIN_PAGE_SIZE + 1
  /\ userData.pageSize = MIN_PAGE_SIZE * Scale
  /\ totalPages = 3
  /\ currentPage = 2

\* --------------------------------------------------------- persistence alone

\* The add form, and the edit form of each custom app shown.
PersistAppInputs ==
  {NewDocsApp}
  \cup { [NewDocsApp EXCEPT !.id = JsStr(a.id), !.description = JsUndefined] :
           a \in { x \in Range(catalogApps) : x.origin = StrCustom } }

\* Backups with a settings section, and with a userData section that names
\* hidden ids and a page size.
PersistBackups ==
  { ObjectOf([settings |-> JsObj([hideDefaultApps |-> JsBool(TRUE),
                                  hasCompletedSetup |-> JsStr(<<"y">>)])]),
    ObjectOf([userData |-> JsObj([hiddenAppIds |-> JsArr(<<JsStr(IdStale)>>),
                                  pageSize |-> JsNum(21 * Scale)])]) }

NextPersist ==
  \/ Hydrate
  \/ \E raws \in Catalogs : FetchSucceed(raws)
  \/ \E id \in FirstShownId : hideApp(id)
  \/ \E id \in FirstShownId : showApp(id)
  \/ \E id \in IdsOf(catalogApps) : removeCustomApp(id)
  \/ \E input \in PersistAppInputs : submitCustomApp(input)
  \/ submitSettings(FormChanged)
  \/ \E markCompleted \in BOOLEAN : closeSettings(markCompleted)
  \/ setDesktopPageSize(JsNum(40 * Scale))
  \/ \E data \in PersistBackups : importBackup(data)

SpecPersist == Init /\ [][NextPersist]_vars

\* C13: after each mutating action the value last written to each store is
\* the value in memory (a store never written holds nothing and memory holds
\* the defaults), and no step changes settings or userData without writing
\* the new value.
C13_StoresFollowMemory ==
  /\ [](/\ (storedUserData = <<userData>>
             \/ (storedUserData = <<>> /\ userData = defaultUserData))
         /\ (storedSettings = <<settings>>
             \/ (storedSettings = <<>> /\ settings = defaultSettings)))
  /\ [][/\ (userData' # userData => storedUserData' = <<userData'>>)
        /\ (settings' # settings => storedSettings' = <<settings'>>)]_vars

\* Setup was marked completed, an app is hidden, a custom app is kept and the
\* page size was changed; both stores hold what memory holds.
C13_Witness ==
  /\ settings.hasCompletedSetup = JsBool(TRUE)
  /\ settings.backgroundType = StrImage
  /\ userData.hiddenAppIds # <<>>
  /\ userData.customApps # <<>>
  /\ userData.pageSize = 42 * Scale
  /\ storedSettings = <<settings>>
  /\ storedUserData = <<userData>>

\* -------------------------------------------------------- catalog loads alone

\* A catalog entry whose id is the slug a custom app named Docs derives.
RawTaken ==
  JsObj([id |-> JsStr(IdCustomDocs), name |-> JsStr(NameDocs),
         url |-> JsStr(UrlPlain)])

FetchCatalogs == { <<RawDocs>>, <<RawDocs, RawTaken>> }

NextFetch ==
  \/ Hydrate
  \/ \E raws \in FetchCatalogs : FetchSucceed(raws)
  \/ FetchFail
  \/ Teardown
  \/ RunLoadEffect
  \/ submitCustomApp(NewDocsApp)
  \/ \E id \in IdsOf(catalogApps) : removeCustomApp(id)
  \/ \E id \in FirstShownId : hideApp(id)
  \/ \E id \in FirstShownId : showApp(id)

SpecFetch == Init /\ [][NextFetch]_vars

\* C14: the completion of a load whose effect was cleaned up changes none of
\* baseCatalog, error and isLoading; at most one load in flight is live and it
\* is the one started last; and the three change only when a load starts or
\* the live one completes.
C14_StaleLoadsIgnored ==
  /\ [](\A i \in DOMAIN fetchState : fetchState[i] = "live" => i = Len(fetchState))
  /\ [][\A i \in DOMAIN fetchState :
          (fetchState[i] = "cancelled" /\ fetchState' = RemoveAt(fetchState, i))
            => UNCHANGED <<baseCatalog, error, isLoading>>]_vars
  /\ [][(baseCatalog' # baseCatalog \/ error' # error \/ isLoading' # isLoading)
          => \/ /\ fetchState # <<>>
                /\ fetchState[Len(fetchState)] = "live"
                /\ fetchState' = RemoveAt(fetchState, Len(fetchState))
             \/ /\ Len(fetchState') = Len(fetchState) + 1
                /\ fetchState'[Len(fetchState')] = "live"
                /\ baseCatalog' = baseCatalog]_vars

\* The load started last has delivered its catalog while two loads started
\* before it, both cleaned up, are still in flight.
C14_Witness ==
  /\ fetchState = <<"cancelled", "cancelled">>
  /\ ~isLoading
  /\ error = <<>>
  /\ baseCatalog = fetchCatalogApps(<<RawDocs, RawTaken>>)

\* The merged collection as it would be had the catalog made of raws loaded.
CollectionWith(raws) ==
  MergedCollection(fetchCatalogApps(raws), userData.customApps, settings.hideDefaultApps,
                   [i \in 1..(Len(raws) + Len(userData.customApps)) |-> 0])

\* The catalog fetch has failed and nothing was loaded.
FetchFailed == error # <<>> /\ baseCatalog = <<>> /\ fetchState = <<>>

\* C15: a failed fetch sets error, clears isLoading and leaves userData and
\* settings alone; every custom app stays in the merged collection; and after
\* the failure submitCustomApp, hideApp, showApp and removeCustomApp change
\* customApps as they do when the catalog has loaded.
C15_CustomAppsIntact ==
  /\ [](\A i \in DOMAIN userData.customApps :
          \E j \in DOMAIN catalogApps :
            catalogApps[j] = [userData.customApps[i] EXCEPT !.id = catalogApps[j].id])
  /\ [][(FetchFail /\ fetchState # <<>> /\ fetchState[Len(fetchState)] = "live"
           /\ fetchState' = RemoveAt(fetchState, Len(fetchState)))
          => /\ error' # <<>>
             /\ ~isLoading'
             /\ UNCHANGED <<userData, settings>>]_vars
  /\ [][FetchFailed =>
          /\ \A id \in FirstShownId :
               (hideApp(id) \/ showApp(id)) => userData'.customApps = userData.customApps
          /\ \A id \in IdsOf(catalogApps) :
               removeCustomApp(id) =>
                 userData'.customApps = SelectSeq(userData.customApps, LAMBDA a : a.id # id)
          /\ submitCustomApp(NewDocsApp) =>
               \A raws \in FetchCatalogs :
                 /\ Len(userData'.customApps) = Len(userData.customApps) + 1
                 /\ userData'.customApps[Len(userData'.customApps)].id =
                      FirstUnseen(IdCustomDocs, IdCustomDocs, 2, IdsOf(CollectionWith(raws)))]_vars

\* ------------------------------------------------------- the add form alone

\* What the form can submit: an accepted app, and inputs with an empty name, a
\* blank name, a link that is no http(s) link, and the custom icon chosen with
\* no icon given or a blank one.
FormAppInputs ==
  { NewDocsApp,
    [NewDocsApp EXCEPT !.name = JsStr(<<>>)],
    [NewDocsApp EXCEPT !.name = JsStr(NameBlank), !.url = JsStr(UrlScript)],
    [NewDocsApp EXCEPT !.url = JsStr(UrlScript)],
    [NewDocsApp EXCEPT !.iconChoice = JsStr(StrCustom)],
    [NewDocsApp EXCEPT !.iconChoice = JsStr(StrCustom), !.iconCustom = JsStr(NameBlank)] }

\* The form also submits each input as an edit of the app it was opened for.
FormSubmissions ==
  FormAppInputs
  \cup { [input EXCEPT !.id = editingAppId] : input \in { x \in FormAppInputs : editingAppId # JsNull } }

NextForm ==
  \/ Hydrate
  \/ \E raws \in Catalogs : FetchSucceed(raws)
  \/ \E app \in {<<>>} \cup { <<a>> : a \in Range(catalogApps) } : openAddApp(app)
  \/ closeAddApp
  \/ \E input \in FormSubmissions : submitCustomApp(input)
  \/ \E id \in FirstShownId : hideApp(id)

SpecForm == Init /\ [][NextForm]_vars

BlankName(input) == Trim(input.name.s) = <<>>
BadLink(input) == sanitizeHttpUrl(input.url) = <<>>
BlankCustomIcon(input) ==
  /\ input.iconChoice = JsStr(StrCustom)
  /\ (input.iconCustom = JsUndefined \/ Trim(input.iconCustom.s) = <<>>)

\* C16: a submitCustomApp whose name is empty or blank returns success=false
\* with "Please enter a name."; with a name and a link that sanitizes to
\* nothing it returns success=false with "Please enter a valid link."; with
\* both and the custom icon chosen but blank it returns success=false; each of
\* them leaves userData, the stored user data, the addApp flag and
\* editingAppId as they were.
C16_RejectsWithoutChange ==
  [][\A input \in FormSubmissions :
       (submitCustomApp(input) /\ (BlankName(input) \/ BadLink(input) \/ BlankCustomIcon(input)))
         => /\ ~result'.success
            /\ BlankName(input) => result'.message = "Please enter a name."
            /\ (~BlankName(input) /\ BadLink(input)) =>
                 result'.message = "Please enter a valid link."
            /\ UNCHANGED <<userData, storedUserData, editingAppId>>
            /\ modals'.addApp = modals.addApp]_vars

\* The edit form of a kept custom app is open and a submission with a blank
\* custom icon was just rejected.
C16_Witness ==
  /\ result = Returned("submitCustomApp", FALSE, "Paste an icon URL or pick a preset.")
  /\ modals.addApp
  /\ editingAppId = JsStr(IdCustomDocs)
  /\ userData.customApps # <<>>
  /\ storedUserData = <<userData>>

\* ------------------------------------------------ updateSettingsFromForm alone

White == <<"#","f","f","f","f","f","f">>

\* Settings with valid values, at the defaults and away from them.
ValidSettings ==
  { [defaultSettings EXCEPT !.overlayOpacity = o, !.blurStrength = b,
                            !.glassTintOpacity = g, !.backgroundColor = c,
                            !.glassTintColor = t] :
      o \in {defaultSettings.overlayOpacity, 60},
      b \in {defaultSettings.blurStrength, 0},
      g \in {defaultSettings.glassTintOpacity, 5},
      c \in {defaultSettings.backgroundColor, White},
      t \in {defaultSettings.glassTintColor, White} }

OverlaidFields ==
  {"overlayOpacity", "blurStrength", "glassTintOpacity", "backgroundColor", "glassTintColor"}

Without(f, keys) == [key \in DOMAIN f \ keys |-> f[key]]

\* Partials: every field given, and one or all of the five fields left out.
SettingsPartials ==
  { JsObj(Without(SettingsToJson(s).f, keys)) :
      s \in {defaultSettings, [defaultSettings EXCEPT !.overlayOpacity = 10, !.glassTintColor = White]},
      keys \in {{}} \cup { {key} : key \in OverlaidFields } \cup {OverlaidFields} }

InitOverlay ==
  /\ hydration = "ready"
  /\ settings \in ValidSettings
  /\ userData = defaultUserData
  /\ baseCatalog = <<>>
  /\ catalogApps = <<>>
  /\ searchTerm = <<>>
  /\ currentPage = 0
  /\ activeIndex = -1
  /\ isLoading = FALSE
  /\ error = <<>>
  /\ modals = [settings |-> FALSE, addApp |-> FALSE, hiddenApps |-> FALSE]
  /\ contextMenu = initialContextMenu
  /\ editingAppId = JsNull
  /\ isMobileLayout = FALSE
  /\ ComponentsMounted
  /\ storedSettings = <<>>
  /\ storedUserData = <<>>
  /\ fetchState = <<>>
  /\ result = NoResult

\* updateSettingsFromForm called on the settings in memory; result keeps the
\* call.
OverlaySettings(partial) ==
  /\ settings' = updateSettingsFromForm(settings, partial)
  /\ result' = [op |-> "updateSettingsFromForm", base |-> settings, partial |-> partial,
                value |-> updateSettingsFromForm(settings, partial)]
  /\ UNCHANGED <<hydration, userData, baseCatalog, catalogApps, searchTerm, currentPage,
                 activeIndex, isLoading, error, modals, contextMenu, editingAppId,
                 isMobileLayout, components, storedSettings, storedUserData, fetchState>>

NextOverlay == \E partial \in SettingsPartials : OverlaySettings(partial)

SpecOverlay == InitOverlay /\ [][NextOverlay]_vars

\* C17: for a base with valid values, each of overlayOpacity, blurStrength,
\* glassTintOpacity, backgroundColor and glassTintColor the partial leaves out
\* has base's value in the result of updateSettingsFromForm.
C17_OmittedKeptFromBase ==
  result.op = "updateSettingsFromForm" =>
    \A field \in OverlaidFields \ DOMAIN result.partial.f :
      result.value[field] = result.base[field]

\* ------------------------------------------------------- the hidden ids alone

\* Backups whose hidden ids repeat an id, hold two ids that are equal after
\* trimming, and hold an id of no app.
HiddenBackups ==
  { ObjectOf([userData |-> JsObj([hiddenAppIds |-> HiddenPart])]),
    ObjectOf([userData |-> JsObj([hiddenAppIds |->
                JsArr(<<JsStr(IdCustomDocs), JsStr(IdAppDocs), JsStr(IdCustomDocs), JsNum(0)>>),
              customApps |-> JsArr(<<RawCustomDocs>>)])]) }

NextHidden ==
  \/ Hydrate
  \/ \E raws \in FetchCatalogs : FetchSucceed(raws)
  \/ FetchFail
  \/ \E id \in ShownIds : hideApp(id)
  \/ \E id \in ShownIds : showApp(id)
  \/ \E id \in IdsOf(catalogApps) : removeCustomApp(id)
  \/ submitCustomApp(NewDocsApp)
  \/ \E data \in HiddenBackups : importBackup(data)

SpecHidden == Init /\ [][NextHidden]_vars

\* C18: userData.hiddenAppIds never holds the same id twice.
C18_HiddenIdsDistinct ==
  \A i \in DOMAIN userData.hiddenAppIds, j \in DOMAIN userData.hiddenAppIds :
    i # j => userData.hiddenAppIds[i] # userData.hiddenAppIds[j]

\* Two apps are hidden after an import whose hidden ids held two ids equal
\* after trimming.
C18_Witness ==
  /\ result = Returned("importBackup", TRUE, "Imported app data successfully.")
  /\ userData.hiddenAppIds = <<IdStale, IdAppDocs>>

\* ------------------------------------------------------ dedupeHiddenIds alone

MaxHidden == 3

\* Entries of a hiddenIds list: ids of apps, an id with a space before it, an
\* id of no app, a blank string and a number.
HiddenEntries ==
  { JsStr(IdAppDocs), JsStr(<<" ">> \o IdAppDocs), JsStr(IdStale), JsStr(IdCustomDocs),
    JsStr(NameBlank), JsNum(0) }

\* Values handed over as hiddenIds: lists, and values that are no list.
HiddenIdsInputs ==
  { JsArr(list) : list \in UNION { [1..n -> HiddenEntries] : n \in 0..MaxHidden } }
  \cup { JsNull, JsUndefined, JsStr(IdAppDocs) }

\* Collections holding both, one or none of the apps app-docs and z.
HiddenCollections ==
  { <<>>,
    <<StoredApp(IdAppDocs, NameDocs, StrCatalog)>>,
    <<StoredApp(IdAppDocs, NameDocs, StrCatalog), StoredApp(IdStale, NameBang, StrCustom)>>,
    <<StoredApp(IdStale, NameBang, StrCustom), StoredApp(IdAppDocs, NameDocs, StrCatalog)>> }

InitDedupe ==
  /\ hydration = "ready"
  /\ settings = defaultSettings
  /\ userData = defaultUserData
  /\ baseCatalog = <<>>
  /\ catalogApps \in HiddenCollections
  /\ searchTerm = <<>>
  /\ currentPage = 0
  /\ activeIndex = -1
  /\ isLoading = FALSE
  /\ error = <<>>
  /\ modals = [settings |-> FALSE, addApp |-> FALSE, hiddenApps |-> FALSE]
  /\ contextMenu = initialContextMenu
  /\ editingAppId = JsNull
  /\ isMobileLayout = FALSE
  /\ ComponentsMounted
  /\ storedSettings = <<>>
  /\ storedUserData = <<>>
  /\ fetchState = <<>>
  /\ result = NoResult

\* dedupeHiddenIds called once on the collection; result keeps the call.
DedupeHidden(hiddenIds) ==
  /\ result = NoResult
  /\ result' = [op |-> "dedupeHiddenIds", hiddenIds |-> hiddenIds, apps |-> catalogApps,
                value |-> dedupeHiddenIds(hiddenIds, catalogApps)]
  /\ UNCHANGED <<hydration, settings, userData, baseCatalog, catalogApps, searchTerm,
                 currentPage, activeIndex, isLoading, error, modals, contextMenu,
                 editingAppId, isMobileLayout, components, storedSettings, storedUserData, fetchState>>

NextDedupe == \E hiddenIds \in HiddenIdsInputs : DedupeHidden(hiddenIds)

SpecDedupe == InitDedupe /\ [][NextDedupe]_vars

\* out is taken from the strings of list, trimmed, without changing their order.
InOrderOf(out, list) ==
  \E at \in [DOMAIN out -> DOMAIN list] :
    /\ \A i \in DOMAIN out, j \in DOMAIN out : i < j => at[i] < at[j]
    /\ \A i \in DOMAIN out : list[at[i]].k = "str" /\ Trim(list[at[i]].s) = out[i]

\* C19: dedupeHiddenIds returns only ids of records in apps, in the order
\* they occur in hiddenIds (as trimmed there), never an id of no record in
\* apps, and the empty list when hiddenIds is no list.
C19_OnlyKnownIdsInOrder ==
  result.op = "dedupeHiddenIds" =>
    IF result.hiddenIds.k # "arr" THEN result.value = <<>>
    ELSE /\ \A i \in DOMAIN result.value :
              \E j \in DOMAIN result.apps : result.apps[j].id = result.value[i]
         /\ InOrderOf(result.value, result.hiddenIds.a)

\* Of three hidden ids two were returned, in the order of hiddenIds and
\* against the order of apps, and the id of no app was left out.
C19_Witness ==
  /\ result.op = "dedupeHiddenIds"
  /\ result.hiddenIds = JsArr(<<JsStr(IdStale), JsStr(IdCustomDocs), JsStr(<<" ">> \o IdAppDocs)>>)
  /\ result.value = <<IdStale, IdAppDocs>>
  /\ result.apps[1].id = IdAppDocs

\* ------------------------------------------------ imports outside the ranges

\* Snapshots naming an overlay opacity and a page size, each below, inside
\* and above its range.
ClampBackups ==
  { ObjectOf([settings |-> JsObj([overlayOpacity |-> JsNum(o)]),
              userData |-> JsObj([pageSize |-> JsNum(p)])]) :
      o \in {-1, 35, 61}, p \in {13 * Scale, 21 * Scale, 57 * Scale} }
  \cup { ObjectOf([settings |-> JsObj([overlayOpacity |-> JsNum(-5 * Scale)]),
                   userData |-> JsObj([pageSize |-> JsNum(-Scale)])]),
         ObjectOf([settings |-> JsObj([overlayOpacity |-> JsNum(5 * Scale)]),
                   userData |-> JsObj([pageSize |-> JsNum(999 * Scale)])]) }

NextClamp ==
  \/ \E data \in ClampBackups : importBackup(data)
  \/ \E input \in SettingsInputs : submitSettings(input)
  \/ \E size \in PageSizeSteps : setDesktopPageSize(JsNum(size))
  \/ submitCustomApp(NewDocsApp)

SpecClamp == InitImport /\ [][NextClamp]_vars

SnapshotOpacity(data) == Get(Get(data, "settings"), "overlayOpacity").n
SnapshotPageSize(data) == Get(Get(data, "userData"), "pageSize").n

InitUtils ==
  /\ hydration = "ready"
  /\ settings = defaultSettings
  /\ userData = defaultUserData
  /\ baseCatalog = <<>>
  /\ catalogApps = <<>>
  /\ searchTerm = <<>>
  /\ currentPage = 0
  /\ activeIndex = -1
  /\ isLoading = FALSE
  /\ error = <<>>
  /\ modals = [settings |-> FALSE, addApp |-> FALSE, hiddenApps |-> FALSE]
  /\ contextMenu = initialContextMenu
  /\ editingAppId = JsNull
  /\ isMobileLayout = FALSE
  /\ ComponentsMounted
  /\ storedSettings = <<>>
  /\ storedUserData = <<>>
  /\ fetchState = <<>>
  /\ result = NoResult

UnchangedByUtils ==
  UNCHANGED <<hydration, settings, userData, baseCatalog, catalogApps, searchTerm,
              currentPage, activeIndex, isLoading, error, modals, contextMenu,
              editingAppId, isMobileLayout, components, storedSettings, storedUserData, fetchState>>

\* Ranges with min <= max, one of them a single point, and fallbacks inside
\* and outside them.
ClampRanges == { <<0, 60>>, <<5, 95>>, <<-2 * Scale, -Scale>>, <<7, 7>>, <<0, 20 * Scale>> }
ClampFallbacks == { 35, -9 * Scale }

\* clampNumber called once; result keeps the call.
ClampCall(value, range, fallback) ==
  /\ result = NoResult
  /\ result' = [op |-> "clampNumber", value |-> value, min |-> range[1], max |-> range[2],
                fallback |-> fallback,
                out |-> clampNumber(value, range[1], range[2], fallback)]
  /\ UnchangedByUtils

\* What a url field may hold: values that are no string, blank text, links
\* without a scheme, protocol-relative links, script links, http(s) links and
\* links of other schemes, some of them malformed.
UrlInputs ==
  { JsUndefined, JsNull, JsNum(0), JsBool(TRUE), JsArr(<<JsStr(UrlPlain)>>), JsObj(<<>>),
    JsStr(<<>>), JsStr(NameBlank), JsStr(UrlPlain), JsStr(<<" ">> \o UrlPlain \o <<" ">>),
    JsStr(<<"/", "/">> \o UrlPlain \o <<"/", "x">>), JsStr(<<"/", "x">>),
    JsStr(UrlScript), JsStr(<<" ", "J", "a", "v", "a", "S", "c", "r", "i", "p", "t", ":", "x">>),
    JsStr(<<"H", "T", "T", "P", ":", "/", "/", "E", ".", "c", "o">>),
    JsStr(StrHttps \o <<":", "/", "/">> \o UrlPlain \o <<"/", "a", " ", "b">>),
    JsStr(StrHttp \o <<":", "/", "/">>),
    JsStr(<<"f", "t", "p", ":", "/", "/">> \o UrlPlain),
    JsStr(<<"m", "a", "i", "l", "t", "o", ":", "a">>),
    JsStr(<<"d", "a", "t", "a", ":", "i", "m", "a", "g", "e", "/", "x">>),
    JsStr(UrlPlain \o <<":", "8", "0">>),
    JsStr(<<"a", " ", "b">>) }

\* sanitizeHttpUrl called once; result keeps the call.
UrlCall(value) ==
  /\ result = NoResult
  /\ result' = [op |-> "sanitizeHttpUrl", value |-> value, out |-> sanitizeHttpUrl(value)]
  /\ UnchangedByUtils

StrDataImage == <<"d", "a", "t", "a", ":", "i", "m", "a", "g", "e", "/">>

\* What an icon field may hold: the url inputs, and paths and data URIs.
IconInputs ==
  UrlInputs
  \cup { JsStr(StrHttp \o <<":", "/", "/">> \o UrlPlain \o <<"/", "i">>),
         JsStr(<<" ">> \o StrHttps \o <<":", "/", "/">> \o UrlPlain \o <<" ">>),
         JsStr(<<"D", "a", "t", "a", ":", "I", "m", "a", "g", "e", "/", "p">>),
         JsStr(<<"d", "a", "t", "a", ":", "t", "e", "x", "t", "/", "x">>),
         JsStr(<<".", "/", "i">>), JsStr(<<" ", "/", "i">>), JsStr(<<".", ".", "/", "i">>),
         JsStr(<<"i", ".", "p", "n", "g">>) }

\* sanitizeIconSource called once; result keeps the call.
IconCall(value) ==
  /\ result = NoResult
  /\ result' = [op |-> "sanitizeIconSource", value |-> value, out |-> sanitizeIconSource(value)]
  /\ UnchangedByUtils

NextUtils ==
  \/ \E value \in NumberInputs, range \in ClampRanges, fallback \in ClampFallbacks :
       ClampCall(value, range, fallback)
  \/ \E value \in UrlInputs : UrlCall(value)
  \/ \E value \in IconInputs : IconCall(value)

SpecUtils == InitUtils /\ [][NextUtils]_vars

\* C21: for min <= max, clampNumber returns fallback when the value does not
\* parse to a finite number; otherwise a number in [min, max]: min when the
\* parsed value lies below, max when it lies above, the parsed value itself
\* in between.
C21_ClampTotal ==
  result.op = "clampNumber" =>
    IF ParseFloatOf(result.value).finite
      THEN /\ result.out \in result.min..result.max
           /\ ParseFloatOf(result.value).n < result.min => result.out = result.min
           /\ ParseFloatOf(result.value).n > result.max => result.out = result.max
           /\ ParseFloatOf(result.value).n \in result.min..result.max =>
                result.out = ParseFloatOf(result.value).n
      ELSE result.out = result.fallback

\* A text that is no number gave a fallback that lies outside the range.
C21_Witness ==
  /\ result.op = "clampNumber"
  /\ result.value = JsStr(<<"a", "b", "c">>)
  /\ result.out = -9 * Scale
  /\ result.min = 0

SchemeOf(s) == ToLowerCase(Until(s, {":"}))

\* C22: sanitizeHttpUrl returns the empty string or a URL whose scheme is
\* http or https; what is no string, blank text, a javascript: value and a
\* value of another scheme give the empty string; a value without a scheme
\* gives what https://value gives, a value starting with // what
\* https:value gives.
C22_HttpOrEmpty ==
  result.op = "sanitizeHttpUrl" =>
    /\ \/ result.out = <<>>
       \/ StartsWith(result.out, StrHttp \o <<":", "/", "/">>)
       \/ StartsWith(result.out, StrHttps \o <<":", "/", "/">>)
    /\ result.value.k # "str" => result.out = <<>>
    /\ result.value.k = "str" =>
         /\ Trim(result.value.s) = <<>> => result.out = <<>>
         /\ StartsWith(ToLowerCase(Trim(result.value.s)), StrJavascript) => result.out = <<>>
         /\ (HasScheme(Trim(result.value.s))
               /\ SchemeOf(Trim(result.value.s)) \notin {StrHttp, StrHttps}) => result.out = <<>>
         /\ (Trim(result.value.s) # <<>> /\ ~HasScheme(Trim(result.value.s))
               /\ ~StartsWith(Trim(result.value.s), <<"/", "/">>)) =>
              result.out = sanitizeHttpUrl(JsStr(StrHttps \o <<":", "/", "/">> \o Trim(result.value.s)))
         /\ StartsWith(Trim(result.value.s), <<"/", "/">>) =>
              result.out = sanitizeHttpUrl(JsStr(StrHttps \o <<":">> \o Trim(result.value.s)))
         /\ result.value.s = UrlPlain => result.out = StrHttps \o <<":", "/", "/">> \o UrlPlain \o <<"/">>

\* A protocol-relative link came back as an https link.
C22_Witness ==
  /\ result.op = "sanitizeHttpUrl"
  /\ result.value = JsStr(<<"/", "/">> \o UrlPlain \o <<"/", "x">>)
  /\ result.out = StrHttps \o <<":", "/", "/">> \o UrlPlain \o <<"/", "x">>

\* The text starts with http://, https:// or data:image/ (in either case of
\* letters), or with ./ or /.
AcceptedIcon(text) ==
  \/ StartsWith(ToLowerCase(text), StrHttp \o <<":", "/", "/">>)
  \/ StartsWith(ToLowerCase(text), StrHttps \o <<":", "/", "/">>)
  \/ StartsWith(ToLowerCase(text), StrDataImage)
  \/ StartsWith(text, <<".", "/">>)
  \/ StartsWith(text, <<"/">>)

\* C23: sanitizeIconSource returns the trimmed input when it starts with
\* http://, https://, data:image/, ./ or /, the default icon in every other
\* case, and never a javascript: URI.
C23_IconOrDefault ==
  result.op = "sanitizeIconSource" =>
    /\ IF result.value.k = "str" /\ AcceptedIcon(Trim(result.value.s))
         THEN result.out = Trim(result.value.s)
         ELSE result.out = DEFAULT_ICON
    /\ ~StartsWith(ToLowerCase(result.out), StrJavascript)

\* A bare relative name gave the default icon.
C23_Witness ==
  /\ result.op = "sanitizeIconSource"
  /\ result.value = JsStr(<<"i", ".", "p", "n", "g">>)
  /\ result.out = DEFAULT_ICON

\* ------------------------------------------------- imports of custom apps

StrAB == <<"a", ",", " ", "b">>

\* Entries of an imported customApps list: two valid apps, one with a list of
\* tags and one with its tags as text, and entries without a name, with a
\* blank name, without a link, with a script link, and that are no objects.
EntryDocs ==
  JsObj([name |-> JsStr(NameDocs), url |-> JsStr(UrlPlain),
         tags |-> JsArr(<<JsStr(<<" ", "a">>), JsStr(<<>>), JsStr(<<"b">>)>>)])
EntryBang ==
  JsObj([name |-> JsStr(<<" ">> \o NameBang), url |-> JsStr(StrHttp \o <<":", "/", "/">> \o UrlPlain),
         tags |-> JsStr(StrAB)])
EntryNoName == JsObj([url |-> JsStr(UrlPlain)])
EntryBlankName == JsObj([name |-> JsStr(NameBlank), url |-> JsStr(UrlPlain)])
EntryScript == JsObj([name |-> JsStr(NameDocs), url |-> JsStr(UrlScript)])

CustomLists ==
  { <<>>,
    <<EntryBang>>,
    <<EntryDocs, RawCustomNoUrl, EntryBang>>,
    <<EntryBang, JsNull, EntryDocs>>,
    <<EntryBlankName, EntryDocs>>,
    <<EntryNoName, EntryScript, JsStr(NameDocs)>>,
    <<JsNum(0), EntryBang, EntryScript>> }

CustomBackups ==
  { ObjectOf([userData |-> JsObj([customApps |-> JsArr(list)])]) : list \in CustomLists }

NextCustomImport ==
  \/ \E data \in CustomBackups : importBackup(data)
  \/ \E id \in ShownIds : hideApp(id)
  \/ \E id \in ShownIds : showApp(id)
  \/ \E id \in IdsOf(catalogApps) : removeCustomApp(id)
  \/ submitSettings(FormChanged)

SpecCustomImport == InitImport /\ [][NextCustomImport]_vars

SnapshotCustomApps(data) == Get(Get(data, "userData"), "customApps").a

\* An entry with a name and a link that is an http(s) link.
ValidEntry(entry) ==
  /\ entry.k = "obj"
  /\ Get(entry, "name").k = "str" /\ Trim(Get(entry, "name").s) # <<>>
  /\ sanitizeHttpUrl(Get(entry, "url")) # <<>>

ValidEntries(list) == SelectSeq(list, ValidEntry)

\* The tags the claim asks for: the entries of a list, or the pieces of a
\* text between its commas, each trimmed, the empty ones dropped.
ExpectedTags(raw) ==
  IF raw.k = "arr" THEN sanitizeTagList(raw)
  ELSE IF raw.k = "str" THEN parseCustomTagString(raw)
  ELSE <<>>

\* C24: an imported custom app has the tags of its tags field, given as a
\* list or as text with commas: the entries in order, trimmed, without the
\* empty ones.
C24_TagsFromBothShapes ==
  [][\A data \in CustomBackups :
       importBackup(data) =>
         /\ Len(userData'.customApps) = Len(ValidEntries(SnapshotCustomApps(data)))
         /\ \A i \in DOMAIN userData'.customApps :
              userData'.customApps[i].tags =
                ExpectedTags(Get(ValidEntries(SnapshotCustomApps(data))[i], "tags"))]_vars

\* C29: an import whose customApps list holds entries without a name,
\* without an http(s) link or that are no objects succeeds, and leaves in
\* userData.customApps the valid entries in their order, each with a name,
\* an http or https link and origin custom.
C29_InvalidEntriesDropped ==
  [][\A data \in CustomBackups :
       importBackup(data) =>
         /\ result'.success
         /\ Len(userData'.customApps) = Len(ValidEntries(SnapshotCustomApps(data)))
         /\ \A i \in DOMAIN userData'.customApps :
              /\ userData'.customApps[i].name =
                   Trim(Get(ValidEntries(SnapshotCustomApps(data))[i], "name").s)
              /\ userData'.customApps[i].url =
                   sanitizeHttpUrl(Get(ValidEntries(SnapshotCustomApps(data))[i], "url"))
              /\ userData'.customApps[i].name # <<>>
              /\ \/ StartsWith(userData'.customApps[i].url, StrHttp \o <<":", "/", "/">>)
                 \/ StartsWith(userData'.customApps[i].url, StrHttps \o <<":", "/", "/">>)
              /\ userData'.customApps[i].origin = StrCustom]_vars

\* Of three entries the two valid ones were kept, in their order, and stored.
C29_Witness ==
  /\ result = Returned("importBackup", TRUE, "Imported app data successfully.")
  /\ Len(userData.customApps) = 2
  /\ userData.customApps[1].name = NameBang
  /\ userData.customApps[2].name = NameDocs
  /\ storedUserData = <<userData>>

\* ------------------------------------------------------ the filtered list alone

\* Search terms: none, blank, one that matches two apps and one that matches
\* none.
FilterTerms == { <<>>, NameBlank, <<"m", "a">>, <<"z">> }

\* A backup whose only hidden id is the id of no app.
StaleHiddenBackup == ObjectOf([userData |-> JsObj([hiddenAppIds |-> JsArr(<<JsStr(IdStale)>>)])])

NextFilter ==
  \/ \E term \in FilterTerms : setSearchTerm(term)
  \/ \E id \in ShownIds : hideApp(id)
  \/ \E id \in ShownIds : showApp(id)
  \/ importBackup(StaleHiddenBackup)
  \/ submitCustomApp(NewDocsApp)

SpecFilter == InitNav /\ [][NextFilter]_vars

HiddenGroupsAt(apps) == { i \in DOMAIN apps : IsHiddenGroup(apps[i]) }

\* The apps of the merged collection whose id is hidden.
HiddenCount ==
  Cardinality({ i \in DOMAIN catalogApps : catalogApps[i].id \in Range(userData.hiddenAppIds) })

\* C25: filteredApps holds one hidden-group record, last and carrying the
\* number of hidden apps, exactly when the trimmed search term is empty and
\* an app of the merged collection is hidden; otherwise it holds none; every
\* other record is an app of the collection that is not hidden.
C25_HiddenGroupTile ==
  /\ IF Trim(searchTerm) = <<>> /\ HiddenCount > 0
       THEN /\ HiddenGroupsAt(filteredApps) = {Len(filteredApps)}
            /\ filteredApps[Len(filteredApps)].count = HiddenCount
       ELSE HiddenGroupsAt(filteredApps) = {}
  /\ \A i \in DOMAIN filteredApps \ HiddenGroupsAt(filteredApps) :
       /\ filteredApps[i] \in Range(catalogApps)
       /\ filteredApps[i].id \notin Range(userData.hiddenAppIds)

\* Two apps are hidden and the search term is blank: the tile is shown after
\* the one visible app.
C25_Witness ==
  /\ searchTerm = NameBlank
  /\ HiddenCount = 2
  /\ Len(filteredApps) = 2
  /\ IsHiddenGroup(filteredApps[2])

\* part holds records of whole, in the order they have there.
KeepsOrderOf(part, whole) == part = SelectSeq(whole, LAMBDA record : record \in Range(part))

\* C27: visibleApps and hiddenApps share no record, every record of the
\* merged collection is in one of them, a record is in hiddenApps exactly
\* when its id is in hiddenAppIds, and both keep the order of the collection.
C27_PartitionExact ==
  /\ Range(visibleApps) \cap Range(hiddenApps) = {}
  /\ Range(visibleApps) \cup Range(hiddenApps) = Range(catalogApps)
  /\ Len(visibleApps) + Len(hiddenApps) = Len(catalogApps)
  /\ \A record \in Range(catalogApps) :
       record \in Range(hiddenApps) <=> record.id \in Range(userData.hiddenAppIds)
  /\ KeepsOrderOf(visibleApps, catalogApps)
  /\ KeepsOrderOf(hiddenApps, catalogApps)

\* Two apps are hidden and two are visible; the hidden ones are listed in the
\* order of the collection, which is not the order they were hidden in.
C27_Witness ==
  /\ Len(hiddenApps) = 2
  /\ Len(visibleApps) = 2
  /\ hiddenApps[1].id = userData.hiddenAppIds[2]

\* ------------------------------------------------------ the context menu alone

MenuPosition == JsObj([x |-> JsNum(0), y |-> JsNum(0)])

\* What the grid shows (the tile included) and what the hidden-apps list shows.
GridRecords == Range(filteredApps)
HiddenListRecords == Range(hiddenApps)

\* The ids of the custom apps shown.
CustomShownIds == { a.id : a \in { x \in Range(catalogApps) : x.origin = StrCustom } }

\* The first app of the grid that is not hidden, if any.
FirstVisibleId == IF visibleApps = <<>> THEN {} ELSE {visibleApps[1].id}

NextMenu ==
  \/ \E app \in GridRecords : openContextMenu(app, StrGrid, MenuPosition)
  \/ \E app \in HiddenListRecords : openContextMenu(app, <<"h", "i", "d", "d", "e", "n">>, MenuPosition)
  \/ closeContextMenu
  \/ \E id \in FirstVisibleId : hideApp(id)
  \/ submitCustomApp(NewDocsApp)
  \/ \E id \in CustomShownIds : removeCustomApp(id)

SpecMenu == InitNav /\ [][NextMenu]_vars

CatalogToggles == { [FormDefaults EXCEPT !.hideDefaultApps = JsBool(hide)] : hide \in BOOLEAN }

NextMerge == \E input \in CatalogToggles : submitSettings(input)

SpecMerge == InitIds /\ [][NextMerge]_vars

WithoutId(app) == [app EXCEPT !.id = <<>>]

CountOf(record, apps) == Cardinality({ i \in DOMAIN apps : WithoutId(apps[i]) = record })

\* The two lists hold the same records as often, ids and order aside.
SameRecords(left, right) ==
  /\ Len(left) = Len(right)
  /\ \A i \in DOMAIN left : CountOf(WithoutId(left[i]), left) = CountOf(WithoutId(left[i]), right)

\* C28: with hideDefaultApps set the merged collection holds the records of
\* userData.customApps and no catalog record; without it, every catalog and
\* every custom record, and the base id of each catalog record belongs to a
\* catalog record, whatever custom record has the same base id.
C28_CatalogFirst ==
  IF settings.hideDefaultApps
    THEN /\ SameRecords(catalogApps, userData.customApps)
         /\ \A i \in DOMAIN catalogApps : catalogApps[i].origin # StrCatalog
    ELSE /\ SameRecords(catalogApps, baseCatalog \o userData.customApps)
         /\ Len(catalogApps) = Len(baseCatalog) + Len(userData.customApps)
         /\ \A i \in DOMAIN baseCatalog :
              \E j \in DOMAIN catalogApps :
                /\ catalogApps[j].id = BaseIdOf(baseCatalog[i], 0)
                /\ catalogApps[j].origin = StrCatalog

\* A catalog record without id and a custom record whose id is the id the
\* catalog record derives: the catalog record has app-docs, the custom one
\* app-docs-2.
C28_Witness ==
  /\ ~settings.hideDefaultApps
  /\ storedSettings # <<>>
  /\ baseCatalog = <<StoredApp(<<>>, NameDocs, StrCatalog)>>
  /\ userData.customApps = <<StoredApp(IdAppDocs, NameDocs, StrCustom)>>
  /\ \E j \in DOMAIN catalogApps :
       catalogApps[j].id = IdAppDocs2 /\ catalogApps[j].origin = StrCustom

\* ---------------------------------------------------------------------------
\* The ids shown and the ids stored, under SpecCustomImport.
\* ---------------------------------------------------------------------------

\* C30: every record of origin custom in catalogApps carries the id of a
\* record of userData.customApps with the same name and url, so that the id
\* handed to removeCustomApp or submitCustomApp names a stored record.
C30_CustomIdsStored ==
  \A j \in DOMAIN catalogApps :
    catalogApps[j].origin = StrCustom =>
      \E i \in DOMAIN userData.customApps :
        /\ userData.customApps[i].id = catalogApps[j].id
        /\ userData.customApps[i].name = catalogApps[j].name
        /\ userData.customApps[i].url = catalogApps[j].url

\* The ids of the records of origin custom in a collection.
CustomIdsOf(apps) == { apps[j].id : j \in { k \in DOMAIN apps : apps[k].origin = StrCustom } }

\* C31: removeCustomApp with the id of a custom app of the merged collection
\* removes exactly that app: no record of the collection and no hidden id has
\* the id afterwards, one custom app less is stored, the others keep their
\* order, and the other hidden ids and pageSize are as before.
C31_RemovesExactlyThat ==
  [][\A id \in CustomIdsOf(catalogApps) :
       removeCustomApp(id) =>
         /\ \A j \in DOMAIN catalogApps' : catalogApps'[j].id # id
         /\ \A h \in DOMAIN userData'.hiddenAppIds : userData'.hiddenAppIds[h] # id
         /\ Len(userData'.customApps) = Len(userData.customApps) - 1
         /\ userData'.customApps =
              SelectSeq(userData.customApps, LAMBDA a : a.id # id)
         /\ userData'.hiddenAppIds =
              SelectSeq(userData.hiddenAppIds, LAMBDA h : h # id)
         /\ userData'.pageSize = userData.pageSize]_vars

\* ------------------------------------------- adding and editing custom apps

\* Backups whose custom app has no id, and whose custom app has one.
EntryDocsWithId ==
  JsObj([id |-> JsStr(IdCustomDocs), name |-> JsStr(NameDocs), url |-> JsStr(UrlPlain)])

SubmitBackups ==
  { ObjectOf([userData |-> JsObj([customApps |-> JsArr(list)])]) :
      list \in { <<>>, <<EntryBang>>, <<EntryDocsWithId>> } }

\* The form adds an app named Docs or named with signs only, or submits the
\* first as an edit of a custom app of the collection.
BangApp == [NewDocsApp EXCEPT !.name = JsStr(NameBang)]

SubmitAppInputs == PersistAppInputs \cup {BangApp}

NextSubmit ==
  \/ \E data \in SubmitBackups : importBackup(data)
  \/ \E input \in SubmitAppInputs : submitCustomApp(input)
  \/ \E id \in ShownIds : hideApp(id)
  \/ \E id \in ShownIds : showApp(id)
  \/ \E input \in CatalogToggles : submitSettings(input)

SpecSubmit == InitImport /\ [][NextSubmit]_vars

StoredCustomIds == { userData.customApps[i].id : i \in DOMAIN userData.customApps }

\* C32: an accepted submitCustomApp without id appends one record to
\* userData.customApps, keeps the records stored before, and gives the new
\* record an id that no record of the merged collection had; with the id of
\* a stored custom app it keeps the id and the number of custom apps and the
\* id is not hidden afterwards.
C32_AddAppendsEditKeeps ==
  [][\A input \in SubmitAppInputs :
       (submitCustomApp(input) /\ result'.success) =>
         IF input.id = JsUndefined
           THEN /\ Len(userData'.customApps) = Len(userData.customApps) + 1
                /\ SubSeq(userData'.customApps, 1, Len(userData.customApps)) =
                     userData.customApps
                /\ userData'.customApps[Len(userData'.customApps)].id \notin IdsOf(catalogApps)
           ELSE input.id.s \in StoredCustomIds =>
                  /\ Len(userData'.customApps) = Len(userData.customApps)
                  /\ input.id.s \in { userData'.customApps[i].id : i \in DOMAIN userData'.customApps }
                  /\ input.id.s \notin Range(userData'.hiddenAppIds)]_vars

\* The ids the apps have when the catalog is shown.
AppIdsWhenShown ==
  IdsOf(MergedCollection(baseCatalog, userData.customApps, FALSE,
                         [i \in 1..(Len(baseCatalog) + Len(userData.customApps)) |-> 0]))

\* C33: hideApp(a) and showApp(a) leave hidden every other app that was
\* hidden before the call, also while the catalog is not part of the merged
\* collection.
C33_OthersStayHidden ==
  [][\A id \in ShownIds :
       (hideApp(id) \/ showApp(id)) =>
         \A h \in (Range(userData.hiddenAppIds) \cap AppIdsWhenShown) \ {id} :
           h \in Range(userData'.hiddenAppIds)]_vars

\* ---------------------------------------------------- the active index alone

\* Steps of one record, of MaxDelta records and of one more, both ways.
FarDeltas == { 0 - (MaxDelta + 1), 0 - MaxDelta, -1, 1, MaxDelta, MaxDelta + 1 }

NextActive ==
  \/ \E term \in SearchTerms : setSearchTerm(term)
  \/ \E index \in -1..MaxApps : setActiveIndex(index)
  \/ \E delta \in FarDeltas : advanceActiveIndex(delta)
  \/ resetActiveIndex
  \/ \E id \in FirstVisibleId : hideApp(id)
  \/ \E id \in Range(userData.hiddenAppIds) : showApp(id)
  \/ submitCustomApp(NewDocsApp)
  \/ \E id \in CustomShownIds : removeCustomApp(id)
  \/ importBackup(StaleHiddenBackup)

SpecActive == InitNav /\ [][NextActive]_vars

\* C34: in every settled state activeIndex is -1 or the index of a record of
\* filteredApps, and a step that changes the search term or the number of
\* filtered records leaves it at 0 when the term is not blank and there is a
\* record, at -1 otherwise.
C34_ActiveIndexInRange ==
  /\ [](hydration = "ready" =>
          (activeIndex = -1 \/ activeIndex \in 0..(Len(filteredApps) - 1)))
  /\ [][(searchTerm' # searchTerm \/ Len(filteredApps') # Len(filteredApps)) =>
          activeIndex' = IF Trim(searchTerm') # <<>> /\ Len(filteredApps') > 0 THEN 0 ELSE -1]_vars

\* ------------------------------------------------------- title lookups alone

\* The link typed into the form, blank or not, and the titles a response
\* carries: none, and two texts.
LookupUrls == { NameBlank, UrlPlain }
LookupTitles == { <<>>, NameDocs, <<" ">> \o NameMail }

NextLookup ==
  \/ \E app \in {<<>>} \cup { <<a>> : a \in Range(catalogApps) } : openAddApp(app)
  \/ closeAddApp
  \/ \E rawUrl \in LookupUrls : StartTitleLookup(rawUrl)
  \/ \E i \in DOMAIN titleLookups : \E title \in LookupTitles : TitleResponse(i, title)
  \/ \E text \in { <<>>, NameBang } : ChangeName(text)

SpecLookup == InitImport /\ [][NextLookup]_vars

\* C35: the response of a title lookup changes the name field only when the
\* lookup is the latest one started in the form's current session and the
\* name field is blank; the response of an earlier lookup, or of one started
\* before the form was reset, leaves isFetchingTitle alone while a later
\* lookup awaits its response.
C35_OnlyLatestLookupWrites ==
  [][\A i \in DOMAIN titleLookups : \A title \in LookupTitles :
       TitleResponse(i, title) =>
         /\ formName' # formName => (titleLookups[i].current /\ Trim(formName) = <<>>)
         /\ (~titleLookups[i].current /\ \E j \in DOMAIN titleLookups : titleLookups[j].current) =>
              isFetchingTitle' = isFetchingTitle]_vars

\* ------------------------------------------------------- the one load alone

\* The load effect depends on hydration alone, which changes once: the mounted
\* hook starts one load. The handlers work while it is awaited.
NextLoad ==
  \/ Hydrate
  \/ \E raws \in FetchCatalogs : FetchSucceed(raws)
  \/ FetchFail
  \/ submitCustomApp(NewDocsApp)
  \/ \E id \in ShownIds : hideApp(id)
  \/ \E id \in ShownIds : showApp(id)
  \/ \E term \in SearchTerms : setSearchTerm(term)

\* The first effect runs after the mount, and the fetch completes.
SpecLoad ==
  /\ Init
  /\ [][NextLoad]_vars
  /\ WF_vars(Hydrate)
  /\ WF_vars(FetchFail \/ \E raws \in FetchCatalogs : FetchSucceed(raws))

LoadCompletes == fetchState = <<"live">> /\ fetchState' = <<>>

\* C36: isLoading is true while the load is awaited; its completion clears
\* isLoading, with the fetched catalog in baseCatalog and no error on success
\* and with an error and baseCatalog as it was on failure; isLoading is not
\* set again, and it is eventually false for good.
C36_LoadingSettles ==
  /\ []("live" \in Range(fetchState) => isLoading)
  /\ [][\A raws \in FetchCatalogs :
          (LoadCompletes /\ FetchSucceed(raws)) =>
            ~isLoading' /\ baseCatalog' = fetchCatalogApps(raws) /\ error' = <<>>]_vars
  /\ [][(LoadCompletes /\ FetchFail) =>
          ~isLoading' /\ error' # <<>> /\ baseCatalog' = baseCatalog]_vars
  /\ [][(hydration = "ready" /\ ~isLoading) => ~isLoading']_vars
  /\ <>[](hydration = "ready" /\ ~isLoading)

\* The load failed while a custom app was added: the error is kept, nothing
\* is loading and the catalog is as before the load.
C36_Witness ==
  /\ hydration = "ready"
  /\ fetchState = <<>>
  /\ ~isLoading
  /\ error # <<>>
  /\ baseCatalog = <<>>
  /\ userData.customApps # <<>>

\* ------------------------------------------- the target of the context menu

\* A backup without custom apps.
NoCustomBackup == ObjectOf([userData |-> JsObj([customApps |-> JsArr(<<>>)])])

\* The menu is opened on what the grid shows while apps come and go: custom
\* apps are added, removed and dropped by an import, the catalog is hidden
\* and shown, and a second load brings another catalog.
NextTarget ==
  \/ Hydrate
  \/ \E raws \in FetchCatalogs : FetchSucceed(raws)
  \/ RunLoadEffect
  \/ \E app \in GridRecords : openContextMenu(app, StrGrid, MenuPosition)
  \/ closeContextMenu
  \/ submitCustomApp(NewDocsApp)
  \/ \E id \in CustomShownIds : removeCustomApp(id)
  \/ importBackup(NoCustomBackup)
  \/ \E input \in CatalogToggles : submitSettings(input)

SpecTarget == Init /\ [][NextTarget]_vars

MenuTargetShown(menu, apps) ==
  menu.appId = JsNull \/ \E j \in DOMAIN apps : JsStr(apps[j].id) = menu.appId

\* C37: in every settled state contextMenu.appId is null or the id of a
\* record of the merged collection, and a step after which the collection
\* has no record with the id of the open menu leaves the menu closed, with
\* appId, source and position null.
C37_MenuTargetExists ==
  /\ [](MenuTargetShown(contextMenu, catalogApps))
  /\ [][(contextMenu.appId # JsNull /\ ~MenuTargetShown(contextMenu, catalogApps')) =>
          contextMenu' = initialContextMenu]_vars

\* The menu is open on the custom app while the catalog is hidden: hiding
\* the catalog closed no menu whose app stayed.
C37_Witness ==
  /\ contextMenu.appId = JsStr(IdCustomDocs)
  /\ settings.hideDefaultApps
  /\ baseCatalog # <<>>
  /\ Len(catalogApps) = 1

\* ------------------------------------------------------ the auto-shrink alone

\* Viewports without a measure, and with room for few and for many cards.
ViewportWidths == { 0, 500, 1100, 1300, 2000 }
ViewportHeights == { 0, 300, 600, 1200 }

\* The effect runs after every render in which it is due.
NextShrink ==
  \/ \E width \in ViewportWidths : \E height \in ViewportHeights : Resize(width, height)
  \/ \E mobile \in BOOLEAN : SwitchLayout(mobile)
  \/ \E size \in PageSizeSteps : setDesktopPageSize(JsNum(size))
  \/ ShrinkEffect

SpecShrink == InitImport /\ [][NextShrink]_vars /\ WF_vars(ShrinkEffect)

\* C38: desktopPageSizeLimit is a step of the page size within
\* [MIN_PAGE_SIZE, MAX_PAGE_SIZE]; the effect fires on desktop layout only,
\* lowers desktopPageSize to the limit and is not due afterwards; whenever it
\* is due it stops being due.
C38_ShrinkTerminates ==
  /\ [](desktopPageSizeLimit # <<>> =>
          /\ desktopPageSizeLimit[1] \in MIN_PAGE_SIZE..MAX_PAGE_SIZE
          /\ (desktopPageSizeLimit[1] - MIN_PAGE_SIZE) % PAGE_SIZE_STEP = 0)
  /\ [][ShrinkEffect =>
          /\ ~isMobileLayout
          /\ desktopPageSize' = desktopPageSizeLimit[1] * Scale
          /\ desktopPageSize' < desktopPageSize
          /\ ~ShrinkDue']_vars
  /\ [](isMobileLayout => ~ENABLED ShrinkEffect)
  /\ (ShrinkDue ~> ~ShrinkDue)

\* The viewport has room for 36 cards and the page size, lowered from a
\* larger one, is the step below, 35.
C38_Witness ==
  /\ viewportSize = [width |-> 1300, height |-> 1200]
  /\ ~isMobileLayout
  /\ desktopGridMetrics[1].rawLimit = 36
  /\ desktopPageSizeLimit = <<35>>
  /\ userData.pageSize = 35 * Scale
  /\ storedUserData = <<userData>>

====
